---- MODULE Spec2Model ----
(***************************************************************************)
(* Model of the accident-record cleaning pipeline (src/data_cleaning.py).  *)
(*                                                                         *)
(* A Python string is a sequence of one-character strings.  A table cell   *)
(* is a tagged value, so that strings, numbers and missing markers can be  *)
(* stored in the same column map.  clean_dataset works column by column;   *)
(* every column operation is a per-row apply, so the model follows one row *)
(* of the table through the stages of clean_dataset.                       *)
(***************************************************************************)
EXTENDS Integers, Sequences, FiniteSets, TLC

(* df: the row of the table that is observed; others: the other rows of   *)
(* the table; columns: the columns the table was read with, each with the  *)
(* header as read and its current name; pc: the stage of clean_dataset to *)
(* run next; pending: the stages still to run when the stages are taken   *)
(* in an order other than that of clean_dataset; exc: the exception that   *)
(* ended clean_dataset, if any.                                            *)
VARIABLES df, others, columns, pc, pending, exc

(* The scraper: year_links, accident_links, all_records and                *)
(* visited_detail_urls are the variables of main; year_index and acc_index *)
(* are the positions of its two loops; requested is the set of URLs        *)
(* requested so far; csv_file is the output file.                          *)
VARIABLES year_links, year_index, accident_links, acc_index, all_records,
          visited_detail_urls, requested, csv_file

vars ==
  <<df, others, columns, pc, pending, exc, year_links, year_index,
    accident_links, acc_index, all_records, visited_detail_urls, requested,
    csv_file>>

(* The scraper does not run while the table is cleaned                     *)
ScraperIdle ==
  UNCHANGED <<year_links, year_index, accident_links, acc_index, all_records,
              visited_detail_urls, requested, csv_file>>

(* main has not started                                                    *)
NoFile == [header |-> <<>>, rows |-> <<>>]

ScraperStart ==
  /\ year_links = <<>>
  /\ year_index = 1
  /\ accident_links = <<>>
  /\ acc_index = 1
  /\ all_records = <<>>
  /\ visited_detail_urls = {}
  /\ requested = {}
  /\ csv_file = NoFile


(***************************************************************************)
(* Cell values                                                             *)
(***************************************************************************)
Str(s) == [t |-> "str", s |-> s, n |-> 0]

IntV(n) == [t |-> "int", s |-> <<>>, n |-> n]

Bool(b) == [t |-> "bool", s |-> <<>>, n |-> IF b THEN 1 ELSE 0]

NaN == [t |-> "nan", s |-> <<>>, n |-> 0]

None == [t |-> "none", s |-> <<>>, n |-> 0]

NA == [t |-> "NA", s |-> <<>>, n |-> 0]

(* What df[name] is when n columns bear the same name: a table, not a cell *)
Frame(n) == [t |-> "frame", s |-> <<>>, n |-> n]

(* The outcome of a call: a returned value, or the exception it raised.    *)
Return(v) == [exc |-> "none", val |-> v]

Raise(e) == [exc |-> e, val |-> <<>>]

(***************************************************************************)
(* Python and pandas primitives used by the cleaning code                  *)
(***************************************************************************)
Digit == {"0", "1", "2", "3", "4", "5", "6", "7", "8", "9"}

DigitSeq == <<"0", "1", "2", "3", "4", "5", "6", "7", "8", "9">>

Whitespace == {" ", "\t"}

UpperSeq == <<"A","B","C","D","E","F","G","H","I","J","K","L","M","N","O","P","Q","R","S","T","U","V","W","X","Y","Z">>

LowerSeq == <<"a","b","c","d","e","f","g","h","i","j","k","l","m","n","o","p","q","r","s","t","u","v","w","x","y","z">>

(* A missing-value test that only recognises None                          *)
pd_isna_none_only(v) == v.t = "none"

pd_isna(v) == v.t \in {"nan", "none", "NA"}

(* str(x): a string is itself, the float NaN prints as "nan".              *)
py_str(v) == IF v.t = "nan" THEN <<"n","a","n">> ELSE v.s

(* Series.astype(str) on an object column: every cell becomes str(cell).   *)
astype_str(v) == Str(py_str(v))

DigitValue == [c \in Digit |-> CHOOSE d \in 0..9 : DigitSeq[d + 1] = c]

DigitVal(c) == DigitValue[c]

Min(S) == CHOOSE p \in S : \A q \in S : p <= q

Max(S) == CHOOSE p \in S : \A q \in S : q <= p

(* The lower-case letter of each upper-case ASCII letter                   *)
LowerOf == [c \in {UpperSeq[i] : i \in 1..26} |->
              LowerSeq[CHOOSE i \in 1..26 : UpperSeq[i] = c]]

lower_char(c) == IF c \in DOMAIN LowerOf THEN LowerOf[c] ELSE c

(* s.lower(), for ASCII text                                               *)
RECURSIVE lower(_)
lower(s) ==
  IF s = <<>> THEN <<>> ELSE <<lower_char(Head(s))>> \o lower(Tail(s))

RECURSIVE lstrip(_)
lstrip(s) ==
  IF s # <<>> /\ Head(s) \in Whitespace THEN lstrip(Tail(s)) ELSE s

RECURSIVE rstrip(_)
rstrip(s) ==
  IF s # <<>> /\ s[Len(s)] \in Whitespace
  THEN rstrip(SubSeq(s, 1, Len(s) - 1))
  ELSE s

strip(s) == rstrip(lstrip(s))

(* s.startswith(k)                                                         *)
startswith(s, k) == Len(k) <= Len(s) /\ SubSeq(s, 1, Len(k)) = k

(* k in s, for strings                                                     *)
contains(k, s) ==
  \E i \in 1..(Len(s) - Len(k) + 1) : SubSeq(s, i, i + Len(k) - 1) = k

(* any(k in s for k in keywords)                                           *)
any_in(keywords, s) == \E j \in 1..Len(keywords) : contains(keywords[j], s)

(* int(s) for a string of decimal digits                                   *)
RECURSIVE int(_)
int(s) ==
  IF s = <<>> THEN 0
  ELSE int(SubSeq(s, 1, Len(s) - 1)) * 10 + DigitVal(s[Len(s)])

(* int(s) raises ValueError unless s is a non-empty run of digits (the     *)
(* arguments here never carry a sign, blanks or underscores).              *)
int_raises(s) == s = <<>> \/ \E i \in 1..Len(s) : s[i] \notin Digit

(* decimal representation of a natural number                              *)
RECURSIVE decimal(_)
decimal(n) ==
  IF n < 10 THEN <<DigitSeq[n + 1]>>
  ELSE decimal(n \div 10) \o <<DigitSeq[(n % 10) + 1]>>

(* f"{n:02d}"                                                              *)
format_02d(n) == IF n < 10 THEN <<"0">> \o decimal(n) ELSE decimal(n)

(* re.sub(r"\D", "", s)                                                    *)
IsDigit(c) == c \in Digit

re_sub_nondigit(s) == SelectSeq(s, IsDigit)

(***************************************************************************)
(* parse_time_col                                                          *)
(***************************************************************************)
(* The four digits read as HHMM                                            *)
time_digits_keep_first(d) ==
  IF Len(d) = 3 THEN <<"0">> \o d
  ELSE IF Len(d) > 4 THEN SubSeq(d, 1, 4)
  ELSE d

time_digits(d) ==
  IF Len(d) = 3 THEN <<"0">> \o d
  ELSE IF Len(d) > 4 THEN SubSeq(d, Len(d) - 3, Len(d))
  ELSE d

time_out_of_range_minute_60(hh, mm) == hh > 23 \/ mm > 60

time_out_of_range(hh, mm) == hh > 23 \/ mm > 59

_parse_time(t) ==
  IF pd_isna(t) THEN None
  ELSE LET s == strip(py_str(t)) IN
    IF s = <<"?">> \/ s = <<>> THEN None
    ELSE LET d == re_sub_nondigit(s) IN
      IF d = <<>> THEN None
      ELSE IF Len(d) <= 2 THEN None
      ELSE LET s4 == time_digits(d)
               hh == int(SubSeq(s4, 1, 2))
               mm == int(SubSeq(s4, 3, 4))
           IN IF time_out_of_range(hh, mm) THEN None
              ELSE Str(format_02d(hh) \o <<":">> \o format_02d(mm))

(***************************************************************************)
(* parse_fatalities                                                        *)
(***************************************************************************)
(* The last index j >= i - 1 such that s[i..j] lies in the class C: the    *)
(* end of a greedy C* started at position i.                               *)
run_end(s, i, C) ==
  CHOOSE j \in (i - 1)..Len(s) :
    /\ \A k \in i..j : s[k] \in C
    /\ j = Len(s) \/ s[j + 1] \notin C

(* re.search(r"(\d+)", s).group(1), or the empty string without a match    *)
re_search_digits(s) ==
  LET starts == {p \in 1..Len(s) : s[p] \in Digit}
  IN IF starts = {} THEN <<>>
     ELSE SubSeq(s, Min(starts), run_end(s, Min(starts), Digit))

CountChar == Digit \cup {"?"}

(* label\s*([0-9?]+) matches at position i, ignoring the label's case      *)
label_match_at(label, s, i) ==
  /\ i + Len(label) - 1 <= Len(s)
  /\ lower(SubSeq(s, i, i + Len(label) - 1)) = label
  /\ LET w == run_end(s, i + Len(label), Whitespace)
     IN w + 1 <= Len(s) /\ s[w + 1] \in CountChar

(* re.search(label + r"\s*([0-9?]+)", s, re.IGNORECASE).group(1), or the   *)
(* empty string without a match                                            *)
re_search_label(label, s) ==
  LET starts == {p \in 1..Len(s) : label_match_at(label, s, p)}
  IN IF starts = {} THEN <<>>
     ELSE LET w == run_end(s, Min(starts) + Len(label), Whitespace)
          IN SubSeq(s, w + 1, run_end(s, w + 1, CountChar))

parse_fatalities(text) ==
  IF pd_isna(text) THEN Return(<<None, None, None>>)
  ELSE LET s == py_str(text)
           m_total == re_search_digits(s)
           total == IF m_total # <<>> THEN IntV(int(m_total)) ELSE None
           m_pax == re_search_label(<<"p","a","s","s","e","n","g","e","r","s",":">>, s)
           pax_int == m_pax # <<>> /\ m_pax # <<"?">>
           m_crew == re_search_label(<<"c","r","e","w",":">>, s)
           crew_int == m_crew # <<>> /\ m_crew # <<"?">>
       IN IF pax_int /\ int_raises(m_pax) THEN Raise("ValueError")
          ELSE IF crew_int /\ int_raises(m_crew) THEN Raise("ValueError")
          ELSE Return(<<total,
                        IF pax_int THEN IntV(int(m_pax)) ELSE None,
                        IF crew_int THEN IntV(int(m_crew)) ELSE None>>)

(***************************************************************************)
(* split_location                                                          *)
(***************************************************************************)
US_STATES ==
  {<<"A","l","a","b","a","m","a">>,
   <<"A","l","a","s","k","a">>,
   <<"A","r","i","z","o","n","a">>,
   <<"A","r","k","a","n","s","a","s">>,
   <<"C","a","l","i","f","o","r","n","i","a">>,
   <<"C","o","l","o","r","a","d","o">>,
   <<"C","o","n","n","e","c","t","i","c","u","t">>,
   <<"D","e","l","a","w","a","r","e">>,
   <<"F","l","o","r","i","d","a">>,
   <<"G","e","o","r","g","i","a">>,
   <<"H","a","w","a","i","i">>,
   <<"I","d","a","h","o">>,
   <<"I","l","l","i","n","o","i","s">>,
   <<"I","n","d","i","a","n","a">>,
   <<"I","o","w","a">>,
   <<"K","a","n","s","a","s">>,
   <<"K","e","n","t","u","c","k","y">>,
   <<"L","o","u","i","s","i","a","n","a">>,
   <<"M","a","i","n","e">>,
   <<"M","a","r","y","l","a","n","d">>,
   <<"M","a","s","s","a","c","h","u","s","e","t","t","s">>,
   <<"M","i","c","h","i","g","a","n">>,
   <<"M","i","n","n","e","s","o","t","a">>,
   <<"M","i","s","s","i","s","s","i","p","p","i">>,
   <<"M","i","s","s","o","u","r","i">>,
   <<"M","o","n","t","a","n","a">>,
   <<"N","e","b","r","a","s","k","a">>,
   <<"N","e","v","a","d","a">>,
   <<"N","e","w"," ","H","a","m","p","s","h","i","r","e">>,
   <<"N","e","w"," ","J","e","r","s","e","y">>,
   <<"N","e","w"," ","M","e","x","i","c","o">>,
   <<"N","e","w"," ","Y","o","r","k">>,
   <<"N","o","r","t","h"," ","C","a","r","o","l","i","n","a">>,
   <<"N","o","r","t","h"," ","D","a","k","o","t","a">>,
   <<"O","h","i","o">>,
   <<"O","k","l","a","h","o","m","a">>,
   <<"O","r","e","g","o","n">>,
   <<"P","e","n","n","s","y","l","v","a","n","i","a">>,
   <<"R","h","o","d","e"," ","I","s","l","a","n","d">>,
   <<"S","o","u","t","h"," ","C","a","r","o","l","i","n","a">>,
   <<"S","o","u","t","h"," ","D","a","k","o","t","a">>,
   <<"T","e","n","n","e","s","s","e","e">>,
   <<"T","e","x","a","s">>,
   <<"U","t","a","h">>,
   <<"V","e","r","m","o","n","t">>,
   <<"V","i","r","g","i","n","i","a">>,
   <<"W","a","s","h","i","n","g","t","o","n">>,
   <<"W","e","s","t"," ","V","i","r","g","i","n","i","a">>,
   <<"W","i","s","c","o","n","s","i","n">>,
   <<"W","y","o","m","i","n","g">>}

US_ABBREVS ==
  {<<"A","L">>,
   <<"A","K">>,
   <<"A","Z">>,
   <<"A","R">>,
   <<"C","A">>,
   <<"C","O">>,
   <<"C","T">>,
   <<"D","E">>,
   <<"F","L">>,
   <<"G","A">>,
   <<"H","I">>,
   <<"I","D">>,
   <<"I","L">>,
   <<"I","N">>,
   <<"I","A">>,
   <<"K","S">>,
   <<"K","Y">>,
   <<"L","A">>,
   <<"M","E">>,
   <<"M","D">>,
   <<"M","A">>,
   <<"M","I">>,
   <<"M","N">>,
   <<"M","S">>,
   <<"M","O">>,
   <<"M","T">>,
   <<"N","E">>,
   <<"N","V">>,
   <<"N","H">>,
   <<"N","J">>,
   <<"N","M">>,
   <<"N","Y">>,
   <<"N","C">>,
   <<"N","D">>,
   <<"O","H">>,
   <<"O","K">>,
   <<"O","R">>,
   <<"P","A">>,
   <<"R","I">>,
   <<"S","C">>,
   <<"S","D">>,
   <<"T","N">>,
   <<"T","X">>,
   <<"U","T">>,
   <<"V","T">>,
   <<"V","A">>,
   <<"W","A">>,
   <<"W","V">>,
   <<"W","I">>,
   <<"W","Y">>}

KNOWN_COUNTRIES ==
  {<<"U","n","i","t","e","d"," ","S","t","a","t","e","s">>,
   <<"U","S","A">>,
   <<"U",".","S",".","A",".">>,
   <<"U",".","S",".">>,
   <<"U","n","i","t","e","d"," ","S","t","a","t","e","s"," ","o","f"," ","A","m","e","r","i","c","a">>,
   <<"C","a","n","a","d","a">>,
   <<"M","e","x","i","c","o">>,
   <<"E","n","g","l","a","n","d">>,
   <<"U","n","i","t","e","d"," ","K","i","n","g","d","o","m">>,
   <<"U","K">>,
   <<"S","c","o","t","l","a","n","d">>,
   <<"W","a","l","e","s">>,
   <<"N","o","r","t","h","e","r","n"," ","I","r","e","l","a","n","d">>,
   <<"F","r","a","n","c","e">>,
   <<"G","e","r","m","a","n","y">>,
   <<"B","e","l","g","i","u","m">>,
   <<"I","t","a","l","y">>,
   <<"S","p","a","i","n">>,
   <<"P","o","r","t","u","g","a","l">>,
   <<"N","e","t","h","e","r","l","a","n","d","s">>,
   <<"S","w","i","t","z","e","r","l","a","n","d">>,
   <<"A","u","s","t","r","i","a">>,
   <<"S","w","e","d","e","n">>,
   <<"N","o","r","w","a","y">>,
   <<"F","i","n","l","a","n","d">>,
   <<"D","e","n","m","a","r","k">>,
   <<"R","u","s","s","i","a">>,
   <<"S","o","v","i","e","t"," ","U","n","i","o","n">>,
   <<"J","a","p","a","n">>,
   <<"C","h","i","n","a">>,
   <<"I","n","d","i","a">>,
   <<"A","u","s","t","r","a","l","i","a">>,
   <<"N","e","w"," ","Z","e","a","l","a","n","d">>,
   <<"B","r","a","z","i","l">>,
   <<"A","r","g","e","n","t","i","n","a">>,
   <<"C","h","i","l","e">>,
   <<"S","o","u","t","h"," ","A","f","r","i","c","a">>}

(* s.split(sep) for a one-character separator                              *)
RECURSIVE split(_, _)
split(s, sep) ==
  IF \A i \in 1..Len(s) : s[i] # sep THEN <<s>>
  ELSE LET i == Min({p \in 1..Len(s) : s[p] = sep})
       IN <<SubSeq(s, 1, i - 1)>> \o split(SubSeq(s, i + 1, Len(s)), sep)

NonEmpty(p) == p # <<>>

(* [p.strip() for p in s.split(",") if p.strip()]                          *)
comma_parts(s) ==
  LET raw == split(s, ",")
  IN SelectSeq([i \in 1..Len(raw) |-> strip(raw[i])], NonEmpty)

(* any(ctry in s for ctry in KNOWN_COUNTRIES)                              *)
any_country_in(s) == \E ctry \in KNOWN_COUNTRIES : contains(ctry, s)

(* The branch for exactly two segments, with the state test moved after   *)
(* the country-substring test                                              *)
two_segments_substring_first(city_region, last) ==
  IF last \in KNOWN_COUNTRIES
  THEN Return(<<Str(city_region), None, Str(last)>>)
  ELSE IF any_country_in(last)
  THEN Return(<<Str(city_region), None, Str(last)>>)
  ELSE IF last \in US_STATES \/ last \in US_ABBREVS
  THEN Return(<<Str(city_region), Str(last), Str(<<"U","n","i","t","e","d"," ","S","t","a","t","e","s">>)>>)
  ELSE Return(<<Str(city_region), Str(last), None>>)

(* The branch of split_location for exactly two segments                   *)
two_segments(city_region, last) ==
  IF last \in KNOWN_COUNTRIES
  THEN Return(<<Str(city_region), None, Str(last)>>)
  ELSE IF last \in US_STATES \/ last \in US_ABBREVS
  THEN Return(<<Str(city_region), Str(last), Str(<<"U","n","i","t","e","d"," ","S","t","a","t","e","s">>)>>)
  ELSE IF any_country_in(last)
  THEN Return(<<Str(city_region), None, Str(last)>>)
  ELSE Return(<<Str(city_region), Str(last), None>>)

(* The branch without a comma, testing only for an exact country name     *)
no_comma_exact_only(s) ==
  IF s \in KNOWN_COUNTRIES
  THEN Return(<<None, None, Str(s)>>)
  ELSE Return(<<Str(s), None, None>>)

(* The branch of split_location for a text without a comma                 *)
no_comma(s) ==
  IF s \in KNOWN_COUNTRIES \/ any_country_in(s)
  THEN Return(<<None, None, Str(s)>>)
  ELSE Return(<<Str(s), None, None>>)

(* The final branch with the third segment taken as the country            *)
other_segments_third_as_country(parts) ==
  IF Len(parts) = 0 THEN Raise("IndexError")
  ELSE Return(<<Str(parts[1]), Str(parts[2]), Str(parts[3])>>)

(* The final else branch of split_location: parts[0], parts[1], parts[-1]; *)
(* it is also taken by the empty list, where parts[0] raises.              *)
other_segments(parts) ==
  IF Len(parts) = 0 THEN Raise("IndexError")
  ELSE Return(<<Str(parts[1]), Str(parts[2]), Str(parts[Len(parts)])>>)

(* len(parts) == 1, with the country lookup of the comma-free branch      *)
one_segment_as_no_comma(p) == no_comma(p)

(* len(parts) == 1                                                         *)
one_segment(p) == Return(<<Str(p), None, None>>)

split_location(loc) ==
  IF pd_isna(loc) THEN Return(<<None, None, None>>)
  ELSE LET s == strip(py_str(loc)) IN
    IF s = <<>> THEN Return(<<None, None, None>>)
    ELSE IF ~contains(<<",">>, s) THEN no_comma(s)
    ELSE LET parts == comma_parts(s) IN
      IF Len(parts) = 1 THEN one_segment(parts[1])
      ELSE IF Len(parts) = 2 THEN two_segments(parts[1], parts[2])
      ELSE other_segments(parts)

(***************************************************************************)
(* categorize_aircraft                                                     *)
(***************************************************************************)
HelicopterKeywords ==
  <<<<"h","e","l","i","c","o","p","t","e","r">>, <<" ","h","e","l","i"," ">>, <<"b","e","l","l"," ">>, <<"u","h","-">>, <<"c","h","-">>, <<"m","h","-">>, <<"a","h","-">>,
    <<"s","-","6","1">>, <<"s","-","7","6">>, <<"m","i","-","8">>, <<"m","i","-","1","7">>, <<"m","i","-","2","4">>>>

GliderKeywords == <<<<"g","l","i","d","e","r">>, <<"s","a","i","l","p","l","a","n","e">>>>

AmphibianKeywords ==
  <<<<"a","m","p","h","i","b","i","a","n">>, <<"s","e","a","p","l","a","n","e">>, <<"f","l","o","a","t","p","l","a","n","e">>, <<"f","l","y","i","n","g"," ","b","o","a","t">>,
    <<"c","a","t","a","l","i","n","a">>, <<"p","b","y">>, <<"g","o","o","s","e">>, <<"o","t","t","e","r">>, <<"b","e","a","v","e","r">>, <<"s","u","n","d","e","r","l","a","n","d">>>>

MilitaryKeywords ==
  <<<<" ","c","-","1">>, <<" ","c","-","2">>, <<" ","c","-","3">>, <<" ","c","-","4">>, <<"k","c","-">>, <<"e","c","-">>, <<"r","c","-">>,
    <<" ","f","-">>, <<" ","b","-","1","7">>, <<" ","b","-","2","4">>, <<" ","b","-","2","9">>, <<" ","b","-","5","2">>,
    <<"m","i","g">>, <<"m","i","g","-">>, <<"s","u","-">>, <<"t","u","-">>, <<"a","n","-","1","2">>, <<"a","n","-","2","2">>, <<"i","l","-","7","6">>>>

JetKeywords ==
  <<<<"b","o","e","i","n","g">>, <<"a","i","r","b","u","s">>, <<"e","m","b","r","a","e","r">>, <<"e","r","j">>, <<"e","-","j","e","t">>,
    <<"b","o","m","b","a","r","d","i","e","r">>, <<"c","r","j">>, <<"m","d","-">>, <<"d","c","-","9">>, <<"d","c","-","1","0">>, <<"l","-","1","0","1","1">>,
    <<"f","o","k","k","e","r"," ","7","0">>, <<"f","o","k","k","e","r"," ","1","0","0">>, <<"y","a","k","-","4","0">>, <<"y","a","k","-","4","2">>, <<"t","u","-","1","3","4">>, <<"t","u","-","1","5","4">>>>

TurbopropKeywords ==
  <<<<"t","u","r","b","o","p","r","o","p">>, <<" ","t","u","r","b","o"," ","p","r","o","p">>, <<"d","h","c","-">>, <<"d","a","s","h"," ","8">>, <<"a","t","r","-">>,
    <<"s","a","a","b"," ","3","4","0">>, <<"s","a","a","b"," ","2","0","0","0">>, <<"f","o","k","k","e","r"," ","2","7">>, <<"f","o","k","k","e","r"," ","5","0">>, <<"h","s","-","7","4","8">>,
    <<"l","-","1","8","8">>, <<"h","e","r","a","l","d">>, <<"s","h","o","r","t","s"," ","3">>, <<"s","h","o","r","t","s","-","3">>, <<"m","e","t","r","o"," ","i","i">>, <<"m","e","t","r","o"," ","i","i","i">>,
    <<"a","n","-","2","4">>, <<"a","n","-","2","6">>, <<"a","n","-","3","2">>, <<"a","n","-","7","2">>, <<"c","a","s","a"," ","2","1","2">>, <<"j","e","t","s","t","r","e","a","m"," ","3","1">>,
    <<"j","e","t","s","t","r","e","a","m"," ","3","2">>>>

PistonKeywords ==
  <<<<"c","e","s","s","n","a">>, <<"p","i","p","e","r">>, <<"b","e","e","c","h">>, <<"k","i","n","g"," ","a","i","r">>, <<"b","a","r","o","n">>,
    <<"b","o","n","a","n","z","a">>, <<"m","o","o","n","e","y">>, <<"s","e","n","e","c","a">>, <<"a","z","t","e","c">>, <<"n","a","v","a","j","o">>,
    <<"d","c","-","3">>, <<"d","a","k","o","t","a">>, <<"c","o","n","v","a","i","r">>, <<"c","v","-">>, <<"d","c","-","4">>, <<"d","c","-","6">>, <<"d","c","-","7">>,
    <<"a","n","-","2">>, <<"i","l","-","1","4">>, <<"l","o","c","k","h","e","e","d"," ","1","0">>, <<"l","o","c","k","h","e","e","d"," ","1","2">>, <<"l","o","c","k","h","e","e","d"," ","1","8">>,
    <<"d","o","-">>, <<"d","o","r","n","i","e","r">>, <<"y","-","7">>>>

VintageKeywords ==
  <<<<"t","r","i","m","o","t","o","r">>, <<"t","r","i","-","m","o","t","o","r">>, <<"w","a","c","o">>, <<"c","u","r","t","i","s","s">>, <<"j","u","n","k","e","r">>, <<"j","u","n","k","e","r","s">>,
    <<"t","i","g","e","r"," ","m","o","t","h">>, <<"b","i","p","l","a","n","e">>, <<"s","t","e","a","r","m","a","n">>>>

(* The label returned when no keyword matches, misspelt                    *)
aircraft_fallback_short == Str(<<"O","t","h","e","r">>)

(* The label returned when no keyword matches                              *)
aircraft_fallback == Str(<<"O","t","h","e","r","/","U","n","m","a","p","p","e","d">>)

(* The keyword scan with the Jet test moved before the Military test       *)
aircraft_keyword_scan_jet_first(s) ==
  IF any_in(HelicopterKeywords, s) THEN Str(<<"H","e","l","i","c","o","p","t","e","r">>)
  ELSE IF contains(<<"g","l","i","d","e","r">>, s) \/ contains(<<"s","a","i","l","p","l","a","n","e">>, s)
  THEN Str(<<"G","l","i","d","e","r">>)
  ELSE IF any_in(AmphibianKeywords, s) THEN Str(<<"A","m","p","h","i","b","i","a","n","/","S","e","a","p","l","a","n","e">>)
  ELSE IF any_in(JetKeywords, s) THEN Str(<<"J","e","t">>)
  ELSE IF any_in(MilitaryKeywords, s) THEN Str(<<"M","i","l","i","t","a","r","y">>)
  ELSE IF any_in(TurbopropKeywords, s) THEN Str(<<"T","u","r","b","o","p","r","o","p">>)
  ELSE IF any_in(PistonKeywords, s) THEN Str(<<"P","i","s","t","o","n","/","P","r","o","p">>)
  ELSE IF any_in(VintageKeywords, s) THEN Str(<<"V","i","n","t","a","g","e","/","E","a","r","l","y">>)
  ELSE aircraft_fallback

(* The keyword scan of categorize_aircraft over the lower-cased text       *)
aircraft_keyword_scan(s) ==
  IF any_in(HelicopterKeywords, s) THEN Str(<<"H","e","l","i","c","o","p","t","e","r">>)
  ELSE IF contains(<<"g","l","i","d","e","r">>, s) \/ contains(<<"s","a","i","l","p","l","a","n","e">>, s)
  THEN Str(<<"G","l","i","d","e","r">>)
  ELSE IF any_in(AmphibianKeywords, s) THEN Str(<<"A","m","p","h","i","b","i","a","n","/","S","e","a","p","l","a","n","e">>)
  ELSE IF any_in(MilitaryKeywords, s) THEN Str(<<"M","i","l","i","t","a","r","y">>)
  ELSE IF any_in(JetKeywords, s) THEN Str(<<"J","e","t">>)
  ELSE IF any_in(TurbopropKeywords, s) THEN Str(<<"T","u","r","b","o","p","r","o","p">>)
  ELSE IF any_in(PistonKeywords, s) THEN Str(<<"P","i","s","t","o","n","/","P","r","o","p">>)
  ELSE IF any_in(VintageKeywords, s) THEN Str(<<"V","i","n","t","a","g","e","/","E","a","r","l","y">>)
  ELSE aircraft_fallback

(* The argument is a cell of the column after astype(str).                 *)
categorize_aircraft(v) ==
  IF pd_isna(v) \/ strip(v.s) = <<>> \/ strip(v.s) = <<"?">>
  THEN Str(<<"U","n","k","n","o","w","n">>)
  ELSE aircraft_keyword_scan(lower(v.s))

(***************************************************************************)
(* extract_phase                                                           *)
(***************************************************************************)
GroundTaxiKeywords == <<<<"t","a","x","i">>, <<"g","r","o","u","n","d">>, <<"p","a","r","k","e","d">>>>

TakeoffKeywords == <<<<"t","a","k","e","o","f","f">>, <<"s","h","o","r","t","l","y"," ","a","f","t","e","r"," ","t","a","k","e","o","f","f">>, <<"r","o","t","a","t","i","o","n">>>>

CruiseKeywords == <<<<"c","r","u","i","s","e">>, <<"e","n"," ","r","o","u","t","e">>, <<"e","n","r","o","u","t","e">>>>

ApproachKeywords == <<<<"a","p","p","r","o","a","c","h">>, <<"f","i","n","a","l"," ","a","p","p","r","o","a","c","h">>, <<"i","l","s">>>>

LandingKeywords == <<<<"l","a","n","d","i","n","g">>, <<"t","o","u","c","h","d","o","w","n">>, <<"f","l","a","r","e">>>>

GoAroundKeywords == <<<<"g","o","-","a","r","o","u","n","d">>, <<"m","i","s","s","e","d"," ","a","p","p","r","o","a","c","h">>>>

(* extract_phase with the Initial climb test moved before the Takeoff test *)
extract_phase_initial_climb_first(s) ==
  IF any_in(GroundTaxiKeywords, s) THEN Str(<<"G","r","o","u","n","d","/","T","a","x","i">>)
  ELSE IF contains(<<"i","n","i","t","i","a","l"," ","c","l","i","m","b">>, s) THEN Str(<<"I","n","i","t","i","a","l"," ","c","l","i","m","b">>)
  ELSE IF any_in(TakeoffKeywords, s) THEN Str(<<"T","a","k","e","o","f","f">>)
  ELSE IF contains(<<" ","c","l","i","m","b">>, s) THEN Str(<<"C","l","i","m","b">>)
  ELSE IF any_in(CruiseKeywords, s) THEN Str(<<"C","r","u","i","s","e">>)
  ELSE IF contains(<<"d","e","s","c","e","n","t">>, s) THEN Str(<<"D","e","s","c","e","n","t">>)
  ELSE IF any_in(ApproachKeywords, s) THEN Str(<<"A","p","p","r","o","a","c","h">>)
  ELSE IF any_in(LandingKeywords, s) THEN Str(<<"L","a","n","d","i","n","g">>)
  ELSE IF any_in(GoAroundKeywords, s) THEN Str(<<"G","o","-","a","r","o","u","n","d">>)
  ELSE Str(<<"U","n","k","n","o","w","n">>)

(* The argument is the lower-cased text of a summary cell.                 *)
extract_phase(s) ==
  IF any_in(GroundTaxiKeywords, s) THEN Str(<<"G","r","o","u","n","d","/","T","a","x","i">>)
  ELSE IF any_in(TakeoffKeywords, s) THEN Str(<<"T","a","k","e","o","f","f">>)
  ELSE IF contains(<<"i","n","i","t","i","a","l"," ","c","l","i","m","b">>, s) THEN Str(<<"I","n","i","t","i","a","l"," ","c","l","i","m","b">>)
  ELSE IF contains(<<" ","c","l","i","m","b">>, s) THEN Str(<<"C","l","i","m","b">>)
  ELSE IF any_in(CruiseKeywords, s) THEN Str(<<"C","r","u","i","s","e">>)
  ELSE IF contains(<<"d","e","s","c","e","n","t">>, s) THEN Str(<<"D","e","s","c","e","n","t">>)
  ELSE IF any_in(ApproachKeywords, s) THEN Str(<<"A","p","p","r","o","a","c","h">>)
  ELSE IF any_in(LandingKeywords, s) THEN Str(<<"L","a","n","d","i","n","g">>)
  ELSE IF any_in(GoAroundKeywords, s) THEN Str(<<"G","o","-","a","r","o","u","n","d">>)
  ELSE Str(<<"U","n","k","n","o","w","n">>)

(***************************************************************************)
(* extract_weather, has_adverse                                            *)
(***************************************************************************)
StormKeywords ==
  <<<<"t","h","u","n","d","e","r","s","t","o","r","m">>, <<"t","h","u","n","d","e","r"," ","s","t","o","r","m">>, <<"t","-","s","t","o","r","m">>, <<"t","s","t","o","r","m">>,
    <<"s","t","o","r","m">>, <<"s","q","u","a","l","l">>, <<"m","i","c","r","o","b","u","r","s","t">>, <<"d","o","w","n","b","u","r","s","t">>, <<"h","e","a","v","y"," ","s","t","o","r","m">>>>

FogKeywords ==
  <<<<"f","o","g">>, <<"m","i","s","t">>, <<"l","o","w"," ","v","i","s","i","b","i","l","i","t","y">>, <<"r","e","d","u","c","e","d"," ","v","i","s","i","b","i","l","i","t","y">>,
    <<"p","o","o","r"," ","v","i","s","i","b","i","l","i","t","y">>, <<"h","a","z","e">>, <<"s","m","o","g">>, <<"w","h","i","t","e","o","u","t">>>>

SnowKeywords ==
  <<<<"s","n","o","w">>, <<"b","l","i","z","z","a","r","d">>, <<"s","l","e","e","t">>, <<"s","n","o","w","s","t","o","r","m">>, <<"s","n","o","w"," ","s","t","o","r","m">>,
    <<"i","c","y"," ","r","u","n","w","a","y">>, <<"i","c","e"," ","o","n"," ","r","u","n","w","a","y">>, <<"r","u","n","w","a","y"," ","i","c","e">>>>

IcingKeywords ==
  <<<<"i","c","i","n","g">>, <<"i","c","e"," ","a","c","c","r","e","t","i","o","n">>, <<"w","i","n","g"," ","i","c","e">>, <<"a","i","r","f","r","a","m","e"," ","i","c","e">>,
    <<"f","r","e","e","z","i","n","g"," ","r","a","i","n">>, <<"f","r","e","e","z","i","n","g"," ","d","r","i","z","z","l","e">>>>

RainKeywords ==
  <<<<"r","a","i","n">>, <<"h","e","a","v","y"," ","r","a","i","n">>, <<"r","a","i","n","s","t","o","r","m">>, <<"r","a","i","n"," ","s","t","o","r","m">>, <<"s","h","o","w","e","r","s">>,
    <<"d","o","w","n","p","o","u","r">>>>

WindKeywords ==
  <<<<"w","i","n","d"," ","s","h","e","a","r">>, <<"w","i","n","d","s","h","e","a","r">>, <<"c","r","o","s","s","w","i","n","d">>, <<"c","r","o","s","s"," ","w","i","n","d">>, <<"g","u","s","t">>,
    <<"s","t","r","o","n","g"," ","w","i","n","d","s">>, <<"g","u","s","t","y">>, <<"t","a","i","l","w","i","n","d">>, <<"h","e","a","d","w","i","n","d">>>>

GoodWeatherKeywords ==
  <<<<"c","l","e","a","r"," ","w","e","a","t","h","e","r">>, <<"g","o","o","d"," ","w","e","a","t","h","e","r">>, <<"v","f","r"," ","c","o","n","d","i","t","i","o","n","s">>, <<"c","l","e","a","r"," ","s","k","i","e","s">>>>

(* extract_weather with the Snow test moved before the Storm test          *)
extract_weather_snow_first(s) ==
  IF s = <<>> \/ strip(s) = <<>> \/ strip(s) = <<"?">>
  THEN Str(<<"N","o","n","e","/","N","o","t"," ","m","e","n","t","i","o","n","e","d">>)
  ELSE IF any_in(SnowKeywords, s) THEN Str(<<"S","n","o","w","/","I","c","y"," ","s","u","r","f","a","c","e">>)
  ELSE IF any_in(StormKeywords, s) THEN Str(<<"S","t","o","r","m","/","T","h","u","n","d","e","r","s","t","o","r","m">>)
  ELSE IF any_in(FogKeywords, s) THEN Str(<<"F","o","g","/","L","o","w"," ","v","i","s","i","b","i","l","i","t","y">>)
  ELSE IF any_in(IcingKeywords, s) THEN Str(<<"I","c","i","n","g"," ","(","i","n","-","f","l","i","g","h","t",")">>)
  ELSE IF any_in(RainKeywords, s) THEN Str(<<"R","a","i","n">>)
  ELSE IF any_in(WindKeywords, s) THEN Str(<<"W","i","n","d","/","W","i","n","d"," ","s","h","e","a","r">>)
  ELSE IF contains(<<"t","u","r","b","u","l","e","n","c","e">>, s) THEN Str(<<"T","u","r","b","u","l","e","n","c","e">>)
  ELSE IF any_in(GoodWeatherKeywords, s) THEN Str(<<"G","o","o","d","/","V","i","s","u","a","l"," ","c","o","n","d","i","t","i","o","n","s">>)
  ELSE Str(<<"N","o","n","e","/","N","o","t"," ","m","e","n","t","i","o","n","e","d">>)

extract_weather(s) ==
  IF s = <<>> \/ strip(s) = <<>> \/ strip(s) = <<"?">>
  THEN Str(<<"N","o","n","e","/","N","o","t"," ","m","e","n","t","i","o","n","e","d">>)
  ELSE IF any_in(StormKeywords, s) THEN Str(<<"S","t","o","r","m","/","T","h","u","n","d","e","r","s","t","o","r","m">>)
  ELSE IF any_in(FogKeywords, s) THEN Str(<<"F","o","g","/","L","o","w"," ","v","i","s","i","b","i","l","i","t","y">>)
  ELSE IF any_in(SnowKeywords, s) THEN Str(<<"S","n","o","w","/","I","c","y"," ","s","u","r","f","a","c","e">>)
  ELSE IF any_in(IcingKeywords, s) THEN Str(<<"I","c","i","n","g"," ","(","i","n","-","f","l","i","g","h","t",")">>)
  ELSE IF any_in(RainKeywords, s) THEN Str(<<"R","a","i","n">>)
  ELSE IF any_in(WindKeywords, s) THEN Str(<<"W","i","n","d","/","W","i","n","d"," ","s","h","e","a","r">>)
  ELSE IF contains(<<"t","u","r","b","u","l","e","n","c","e">>, s) THEN Str(<<"T","u","r","b","u","l","e","n","c","e">>)
  ELSE IF any_in(GoodWeatherKeywords, s) THEN Str(<<"G","o","o","d","/","V","i","s","u","a","l"," ","c","o","n","d","i","t","i","o","n","s">>)
  ELSE Str(<<"N","o","n","e","/","N","o","t"," ","m","e","n","t","i","o","n","e","d">>)

AdverseLabels ==
  {<<"S","t","o","r","m","/","T","h","u","n","d","e","r","s","t","o","r","m">>, <<"F","o","g","/","L","o","w"," ","v","i","s","i","b","i","l","i","t","y">>, <<"S","n","o","w","/","I","c","y"," ","s","u","r","f","a","c","e">>,
   <<"I","c","i","n","g"," ","(","i","n","-","f","l","i","g","h","t",")">>, <<"R","a","i","n">>, <<"W","i","n","d","/","W","i","n","d"," ","s","h","e","a","r">>, <<"T","u","r","b","u","l","e","n","c","e">>}

(* has_adverse with the good-weather label counted as adverse             *)
has_adverse_counts_good(w) ==
  Bool(w.s \in AdverseLabels \cup {<<"G","o","o","d","/","V","i","s","u","a","l"," ","c","o","n","d","i","t","i","o","n","s">>})

has_adverse(w) == Bool(w.s \in AdverseLabels)

(***************************************************************************)
(* normalize_columns                                                       *)
(***************************************************************************)
Alnum ==
  Digit \cup {UpperSeq[i] : i \in 1..26} \cup {LowerSeq[i] : i \in 1..26}

RECURSIVE skip_nonalnum(_)
skip_nonalnum(s) ==
  IF s # <<>> /\ Head(s) \notin Alnum THEN skip_nonalnum(Tail(s)) ELSE s

(* re.sub(r"[^0-9a-zA-Z]+", "_", s)                                        *)
RECURSIVE re_sub_nonalnum(_)
re_sub_nonalnum(s) ==
  IF s = <<>> THEN <<>>
  ELSE IF Head(s) \in Alnum THEN <<Head(s)>> \o re_sub_nonalnum(Tail(s))
  ELSE <<"_">> \o re_sub_nonalnum(skip_nonalnum(s))

(* s.strip("_")                                                            *)
RECURSIVE strip_underscores(_)
strip_underscores(s) ==
  IF s # <<>> /\ Head(s) = "_" THEN strip_underscores(Tail(s))
  ELSE IF s # <<>> /\ s[Len(s)] = "_"
  THEN strip_underscores(SubSeq(s, 1, Len(s) - 1))
  ELSE s

(* The else branch: tmp or col_clean                                       *)
header_fallback(col_clean) ==
  LET tmp == strip_underscores(re_sub_nonalnum(col_clean))
  IN IF tmp # <<>> THEN tmp ELSE col_clean

(* The if/elif chain with the "fatalit" test ahead of the "type" test      *)
header_rules_fatalit_first(col_clean) ==
  IF startswith(col_clean, <<"a","b","o","a","r","d">>) THEN <<"a","b","o","a","r","d">>
  ELSE IF contains(<<"f","a","t","a","l","i","t">>, col_clean) THEN <<"f","a","t","a","l","i","t","i","e","s">>
  ELSE IF startswith(col_clean, <<"c","n">>) THEN <<"c","n","_","l","n">>
  ELSE IF col_clean = <<"d","a","t","e">> THEN <<"d","a","t","e">>
  ELSE IF col_clean = <<"d","e","t","a","i","l","_","u","r","l">> THEN <<"d","e","t","a","i","l","_","u","r","l">>
  ELSE IF contains(<<"t","y","p","e">>, col_clean) THEN <<"a","i","r","c","r","a","f","t","_","t","y","p","e">>
  ELSE IF contains(<<"f","l","i","g","h","t">>, col_clean) THEN <<"f","l","i","g","h","t","_","n","o">>
  ELSE IF col_clean \in {<<"g","r","o","u","n","d">>, <<"g","r","o","u","n","d","_","f","a","t","a","l","i","t","i","e","s">>} THEN <<"g","r","o","u","n","d","_","f","a","t","a","l","i","t","i","e","s">>
  ELSE IF col_clean = <<"l","o","c","a","t","i","o","n">> THEN <<"l","o","c","a","t","i","o","n">>
  ELSE IF contains(<<"o","p","e","r","a","t","o","r">>, col_clean) THEN <<"o","p","e","r","a","t","o","r">>
  ELSE IF contains(<<"r","e","g","i","s","t","r">>, col_clean) THEN <<"r","e","g","i","s","t","r","a","t","i","o","n">>
  ELSE IF col_clean = <<"r","o","u","t","e">> THEN <<"r","o","u","t","e">>
  ELSE IF col_clean = <<"s","u","m","m","a","r","y">> THEN <<"s","u","m","m","a","r","y">>
  ELSE IF col_clean = <<"t","i","m","e">> THEN <<"t","i","m","e">>
  ELSE IF contains(<<"y","e","a","r","_","p","a","g","e","_","u","r","l">>, col_clean) THEN <<"y","e","a","r","_","p","a","g","e","_","u","r","l">>
  ELSE header_fallback(col_clean)

(* The if/elif chain on col_clean                                          *)
header_rules(col_clean) ==
  IF startswith(col_clean, <<"a","b","o","a","r","d">>) THEN <<"a","b","o","a","r","d">>
  ELSE IF contains(<<"t","y","p","e">>, col_clean) THEN <<"a","i","r","c","r","a","f","t","_","t","y","p","e">>
  ELSE IF startswith(col_clean, <<"c","n">>) THEN <<"c","n","_","l","n">>
  ELSE IF col_clean = <<"d","a","t","e">> THEN <<"d","a","t","e">>
  ELSE IF col_clean = <<"d","e","t","a","i","l","_","u","r","l">> THEN <<"d","e","t","a","i","l","_","u","r","l">>
  ELSE IF contains(<<"f","a","t","a","l","i","t">>, col_clean) THEN <<"f","a","t","a","l","i","t","i","e","s">>
  ELSE IF contains(<<"f","l","i","g","h","t">>, col_clean) THEN <<"f","l","i","g","h","t","_","n","o">>
  ELSE IF col_clean \in {<<"g","r","o","u","n","d">>, <<"g","r","o","u","n","d","_","f","a","t","a","l","i","t","i","e","s">>} THEN <<"g","r","o","u","n","d","_","f","a","t","a","l","i","t","i","e","s">>
  ELSE IF col_clean = <<"l","o","c","a","t","i","o","n">> THEN <<"l","o","c","a","t","i","o","n">>
  ELSE IF contains(<<"o","p","e","r","a","t","o","r">>, col_clean) THEN <<"o","p","e","r","a","t","o","r">>
  ELSE IF contains(<<"r","e","g","i","s","t","r">>, col_clean) THEN <<"r","e","g","i","s","t","r","a","t","i","o","n">>
  ELSE IF col_clean = <<"r","o","u","t","e">> THEN <<"r","o","u","t","e">>
  ELSE IF col_clean = <<"s","u","m","m","a","r","y">> THEN <<"s","u","m","m","a","r","y">>
  ELSE IF col_clean = <<"t","i","m","e">> THEN <<"t","i","m","e">>
  ELSE IF contains(<<"y","e","a","r","_","p","a","g","e","_","u","r","l">>, col_clean) THEN <<"y","e","a","r","_","p","a","g","e","_","u","r","l">>
  ELSE header_fallback(col_clean)

(* The name col_map gives the column col                                   *)
normalize_header(col) == header_rules(lower(strip(col)))

(* Column names that are keys of the model's column maps, as spelled       *)
Spelling ==
  ("aboard" :> <<"a","b","o","a","r","d">>)
  @@ ("aircraft_type" :> <<"a","i","r","c","r","a","f","t","_","t","y","p","e">>)
  @@ ("cn_ln" :> <<"c","n","_","l","n">>)
  @@ ("date" :> <<"d","a","t","e">>)
  @@ ("detail_url" :> <<"d","e","t","a","i","l","_","u","r","l">>)
  @@ ("fatalities" :> <<"f","a","t","a","l","i","t","i","e","s">>)
  @@ ("flight_no" :> <<"f","l","i","g","h","t","_","n","o">>)
  @@ ("ground_fatalities" :> <<"g","r","o","u","n","d","_","f","a","t","a","l","i","t","i","e","s">>)
  @@ ("location" :> <<"l","o","c","a","t","i","o","n">>)
  @@ ("operator" :> <<"o","p","e","r","a","t","o","r">>)
  @@ ("registration" :> <<"r","e","g","i","s","t","r","a","t","i","o","n">>)
  @@ ("route" :> <<"r","o","u","t","e">>)
  @@ ("summary" :> <<"s","u","m","m","a","r","y">>)
  @@ ("time" :> <<"t","i","m","e">>)
  @@ ("year_page_url" :> <<"y","e","a","r","_","p","a","g","e","_","u","r","l">>)
  @@ ("date_parsed" :> <<"d","a","t","e","_","p","a","r","s","e","d">>)
  @@ ("time_raw" :> <<"t","i","m","e","_","r","a","w">>)
  @@ ("time_hhmm" :> <<"t","i","m","e","_","h","h","m","m">>)
  @@ ("fatalities_total" :> <<"f","a","t","a","l","i","t","i","e","s","_","t","o","t","a","l">>)
  @@ ("fatalities_passengers" :> <<"f","a","t","a","l","i","t","i","e","s","_","p","a","s","s","e","n","g","e","r","s">>)
  @@ ("fatalities_crew" :> <<"f","a","t","a","l","i","t","i","e","s","_","c","r","e","w">>)
  @@ ("location_city" :> <<"l","o","c","a","t","i","o","n","_","c","i","t","y">>)
  @@ ("location_state" :> <<"l","o","c","a","t","i","o","n","_","s","t","a","t","e">>)
  @@ ("location_country" :> <<"l","o","c","a","t","i","o","n","_","c","o","u","n","t","r","y">>)
  @@ ("aircraft_category" :> <<"a","i","r","c","r","a","f","t","_","c","a","t","e","g","o","r","y">>)
  @@ ("phase_clean" :> <<"p","h","a","s","e","_","c","l","e","a","n">>)
  @@ ("weather_condition" :> <<"w","e","a","t","h","e","r","_","c","o","n","d","i","t","i","o","n">>)
  @@ ("weather_adverse" :> <<"w","e","a","t","h","e","r","_","a","d","v","e","r","s","e">>)
  @@ ("ground" :> <<"g","r","o","u","n","d">>)
  @@ ("ac_type" :> <<"a","c","_","t","y","p","e">>)

(* The key of the column map for a column name: its own text               *)
column_key(name) ==
  IF \E k \in DOMAIN Spelling : Spelling[k] = name
  THEN CHOOSE k \in DOMAIN Spelling : Spelling[k] = name
  ELSE ToString(name)

(* df.rename(columns=...) for one row: names[i] is the new name of column  *)
(* i.  rename does not merge columns, so a name borne by several columns   *)
(* selects all of them.                                                    *)
rename_row(r, names) ==
  [k \in {column_key(names[i]) : i \in 1..Len(names)} |->
     LET at == {i \in 1..Len(names) : column_key(names[i]) = k}
     IN IF Cardinality(at) = 1
        THEN r[column_key(columns[CHOOSE i \in at : TRUE].name)]
        ELSE Frame(Cardinality(at))]

normalize_columns ==
  /\ pc = "normalize_columns"
  /\ LET names == [i \in 1..Len(columns) |->
                    normalize_header(strip(columns[i].name))]
     IN /\ columns' = [i \in 1..Len(columns) |->
                         [raw |-> columns[i].raw, name |-> names[i]]]
        /\ df' = rename_row(df, names)
        /\ others' = [i \in 1..Len(others) |-> rename_row(others[i], names)]
  /\ pc' = "parse_date_col"
  /\ UNCHANGED <<exc, pending>>
  /\ ScraperIdle

(***************************************************************************)
(* The stages of clean_dataset, applied to one row                         *)
(***************************************************************************)
NoExc == [type |-> "none", where |-> "none"]

NaT == [t |-> "NaT", s |-> <<>>, n |-> 0]

(* Date strings the calendar-date parser of pandas accepts; the parser is  *)
(* library code, the cleaning code only relies on errors="coerce".         *)
ParseableDates == {<<"J","a","n","u","a","r","y"," ","0","1",","," ","2","0","0","1">>, <<"2","0","0","1","-","0","1","-","0","1">>}

(* pd.to_datetime(cell, errors="coerce")                                   *)
to_datetime(v) ==
  IF pd_isna(v) \/ v.s \notin ParseableDates THEN NaT
  ELSE [t |-> "datetime", s |-> v.s, n |-> 0]

(* pd.to_numeric(cell, errors="coerce") for None, a number, or a string    *)
(* without sign, blank, decimal point or exponent                          *)
to_numeric(v) ==
  IF v.t = "int" THEN v
  ELSE IF v.t = "str" /\ ~int_raises(v.s) THEN IntV(int(v.s))
  ELSE NaN

(* Each stage is a column operation, that is, one function applied to     *)
(* every row.  The operators below give the row a stage makes of a row, or *)
(* the exception the row raises.                                           *)
(* A column operation on a name borne by several columns is handed a     *)
(* table instead of a column, which the pandas operations used here reject. *)
date_row(r) ==
  IF "date" \notin DOMAIN r THEN Return(r)
  ELSE IF r["date"].t = "frame" THEN Raise("ValueError")
  ELSE Return(("date_parsed" :> to_datetime(r["date"])) @@ r)

time_row(r) ==
  IF "time" \notin DOMAIN r THEN Return(r)
  ELSE IF r["time"].t = "frame" THEN Raise("ValueError")
  ELSE Return(("time_hhmm" :> _parse_time(r["time"]))
              @@ ("time_raw" :> r["time"]) @@ r)

fatalities_row(r) ==
  IF "fatalities" \notin DOMAIN r THEN Return(r)
  ELSE IF r["fatalities"].t = "frame" THEN Raise("ValueError")
  ELSE LET x == parse_fatalities(r["fatalities"]) IN
    IF x.exc # "none" THEN Raise(x.exc)
    ELSE Return(("fatalities_total" :> to_numeric(x.val[1]))
                @@ ("fatalities_passengers" :> to_numeric(x.val[2]))
                @@ ("fatalities_crew" :> to_numeric(x.val[3])) @@ r)

location_row(r) ==
  IF "location" \notin DOMAIN r THEN Return(r)
  ELSE IF r["location"].t = "frame" THEN Raise("ValueError")
  ELSE LET x == split_location(r["location"]) IN
    IF x.exc # "none" THEN Raise(x.exc)
    ELSE Return(("location_city" :> x.val[1])
                @@ ("location_state" :> x.val[2])
                @@ ("location_country" :> x.val[3]) @@ r)

ground_fatalities_row(r) ==
  IF "ground_fatalities" \notin DOMAIN r THEN Return(r)
  ELSE IF r["ground_fatalities"].t = "frame" THEN Raise("TypeError")
  ELSE Return(("ground_fatalities" :> to_numeric(r["ground_fatalities"]))
              @@ r)

aircraft_category_row(r) ==
  IF "aircraft_type" \notin DOMAIN r
  THEN Return(("aircraft_category" :> NA) @@ r)
  ELSE IF r["aircraft_type"].t = "frame" THEN Raise("ValueError")
  ELSE Return(("aircraft_category" :>
                 categorize_aircraft(astype_str(r["aircraft_type"]))) @@ r)

(* The phase stage writing the lower-cased summary back into the table    *)
phase_clean_row_lowers_summary(r) ==
  IF "summary" \notin DOMAIN r THEN Return(("phase_clean" :> NA) @@ r)
  ELSE IF r["summary"].t = "frame" THEN Raise("AttributeError")
  ELSE Return(("phase_clean" :>
                 extract_phase(lower(astype_str(r["summary"]).s)))
              @@ ("summary" :> Str(lower(astype_str(r["summary"]).s))) @@ r)

phase_clean_row(r) ==
  IF "summary" \notin DOMAIN r THEN Return(("phase_clean" :> NA) @@ r)
  ELSE IF r["summary"].t = "frame" THEN Raise("AttributeError")
  ELSE Return(("phase_clean" :>
                 extract_phase(lower(astype_str(r["summary"]).s))) @@ r)

(* The weather stage reading the flight phase when it is already there    *)
weather_row_after_phase(r) ==
  IF "summary" \notin DOMAIN r
  THEN Return(("weather_condition" :> NA) @@ ("weather_adverse" :> NA) @@ r)
  ELSE IF r["summary"].t = "frame" THEN Raise("AttributeError")
  ELSE LET w == extract_weather(lower(astype_str(r["summary"]).s))
       IN Return(("weather_condition" :> w)
                 @@ ("weather_adverse" :>
                       IF "phase_clean" \in DOMAIN r
                       THEN Bool(r["phase_clean"] = Str(<<"G","r","o","u","n","d","/","T","a","x","i">>))
                       ELSE has_adverse(w)) @@ r)

weather_row(r) ==
  IF "summary" \notin DOMAIN r
  THEN Return(("weather_condition" :> NA) @@ ("weather_adverse" :> NA) @@ r)
  ELSE IF r["summary"].t = "frame" THEN Raise("AttributeError")
  ELSE LET w == extract_weather(lower(astype_str(r["summary"]).s))
       IN Return(("weather_condition" :> w)
                 @@ ("weather_adverse" :> has_adverse(w)) @@ r)

(* A stage applied to the whole table, a being what it makes of the       *)
(* observed row and b of the other rows: an exception raised for any row   *)
(* propagates out of clean_dataset before the stage assigns its columns.   *)
Stage(next, a, b, where) ==
  /\ ScraperIdle
  /\ LET raised == {a.exc} \cup {b[i].exc : i \in 1..Len(others)}
     IN IF raised # {"none"}
        THEN /\ exc' = [type |-> CHOOSE e \in raised : e # "none",
                        where |-> where]
             /\ pc' = "raised"
             /\ UNCHANGED <<df, others, columns, pending>>
        ELSE /\ df' = a.val
             /\ others' = [i \in 1..Len(others) |-> b[i].val]
             /\ pc' = next
             /\ UNCHANGED <<exc, columns, pending>>

parse_date_col ==
  /\ pc = "parse_date_col"
  /\ Stage("parse_time_col", date_row(df),
           [i \in 1..Len(others) |-> date_row(others[i])], "parse_date_col")

parse_time_col ==
  /\ pc = "parse_time_col"
  /\ Stage("fatalities", time_row(df),
           [i \in 1..Len(others) |-> time_row(others[i])], "parse_time_col")

fatalities_columns ==
  /\ pc = "fatalities"
  /\ Stage("location", fatalities_row(df),
           [i \in 1..Len(others) |-> fatalities_row(others[i])], "parse_fatalities")

location_columns ==
  /\ pc = "location"
  /\ Stage("ground_fatalities", location_row(df),
           [i \in 1..Len(others) |-> location_row(others[i])], "split_location")

ground_fatalities_column ==
  /\ pc = "ground_fatalities"
  /\ Stage("aircraft_category", ground_fatalities_row(df),
           [i \in 1..Len(others) |-> ground_fatalities_row(others[i])], "to_numeric")

aircraft_category_column ==
  /\ pc = "aircraft_category"
  /\ Stage("phase_clean", aircraft_category_row(df),
           [i \in 1..Len(others) |-> aircraft_category_row(others[i])], "categorize_aircraft")

phase_clean_column ==
  /\ pc = "phase_clean"
  /\ Stage("weather", phase_clean_row(df),
           [i \in 1..Len(others) |-> phase_clean_row(others[i])], "extract_phase")

weather_columns ==
  /\ pc = "weather"
  /\ Stage("done", weather_row(df),
           [i \in 1..Len(others) |-> weather_row(others[i])], "extract_weather")

(* clean_dataset on a table of the single row r: the cleaned row, or the   *)
(* exception raised                                                        *)
row_stage(k, r) ==
  CASE k = 1 -> date_row(r)
    [] k = 2 -> time_row(r)
    [] k = 3 -> fatalities_row(r)
    [] k = 4 -> location_row(r)
    [] k = 5 -> ground_fatalities_row(r)
    [] k = 6 -> aircraft_category_row(r)
    [] k = 7 -> phase_clean_row(r)
    [] k = 8 -> weather_row(r)

RECURSIVE clean_upto(_, _)
clean_upto(k, r) ==
  IF k = 0 THEN Return(r)
  ELSE LET x == clean_upto(k - 1, r)
       IN IF x.exc # "none" THEN x ELSE row_stage(k, x.val)

clean_row(r) == clean_upto(8, r)

Next ==
  \/ parse_date_col
  \/ parse_time_col
  \/ fatalities_columns
  \/ location_columns
  \/ ground_fatalities_column
  \/ aircraft_category_column
  \/ phase_clean_column
  \/ weather_columns

(***************************************************************************)
(* Input tables: one row, the columns under their canonical names          *)
(***************************************************************************)
MaxTimeLen == 5

MaxFatalityChunks == 4

MaxLocationChunks == 4

MaxAircraftChunks == 3

MaxSummaryChunks == 3

(* All concatenations of at most n of the given pieces                     *)
RECURSIVE Texts(_, _)
Texts(chunks, n) ==
  IF n = 0 THEN {<<>>}
  ELSE LET shorter == Texts(chunks, n - 1)
       IN shorter \cup {t \o c : t \in shorter, c \in chunks}

Cells(texts) == {Str(t) : t \in texts} \cup {NaN}

TimeChars == {<<"0">>, <<"2">>, <<"6">>, <<":">>, <<"?">>}

TimeExamples ==
  {<<"7","0","0">>, <<"2","6","4","5">>, <<"1","7","1","8">>, <<"c",":"," ","1","7",":","1","8">>, <<"0","9",":","3","5","Z">>, <<"1","1","7",":","1","8">>, <<" ","?"," ">>,
   <<" ","7","0","0"," ">>, <<" "," "," ">>}

TimeCells == Cells(Texts(TimeChars, MaxTimeLen) \cup TimeExamples)

FatalityChunks ==
  {<<"2">>, <<"0">>, <<"?">>, <<" ">>, <<"(">>, <<"p","a","s","s","e","n","g","e","r","s",":">>, <<"P","a","s","s","e","n","g","e","r","s",":">>, <<"c","r","e","w",":">>}

FatalityExamples ==
  {<<"2","2"," "," "," ","(","p","a","s","s","e","n","g","e","r","s",":","?"," "," ","c","r","e","w",":","?",")">>, <<"1"," "," "," "," ","(","p","a","s","s","e","n","g","e","r","s",":","1"," "," ","c","r","e","w",":","0",")">>,
   <<"?"," "," "," "," ","(","p","a","s","s","e","n","g","e","r","s",":","3"," "," ","c","r","e","w",":","?",")">>, <<"1","3"," ","(","P","A","S","S","E","N","G","E","R","S",":"," ","1","0"," ","C","R","E","W",":","3",")">>}

FatalityCells ==
  Cells(Texts(FatalityChunks, MaxFatalityChunks) \cup FatalityExamples)

LocationChunks ==
  {<<",">>, <<" ">>, <<"M","o","s","c","o","w">>, <<"R","u","s","s","i","a">>, <<"F","L">>, <<"I","n","d","i","a","n","a">>}

LocationExamples ==
  {<<"M","o","s","c","o","w",","," ","R","u","s","s","i","a">>, <<"M","i","a","m","i",","," ","F","L">>, <<"S","a","n","t","a"," ","F","e",","," ","N","e","w"," ","M","e","x","i","c","o">>,
   <<"N","e","a","r"," ","M","o","s","c","o","w",","," ","S","o","v","i","e","t"," ","U","n","i","o","n"," ","(","R","u","s","s","i","a",")">>, <<"A","t","l","a","n","t","i","c"," ","O","c","e","a","n">>,
   <<"P","a","r","i","s",","," ","I","l","e","-","d","e","-","F","r","a","n","c","e",","," ","F","r","a","n","c","e">>, <<"O","f","f"," ","C","a","p","e"," ","T","o","w","n",","," ","S","o","u","t","h"," ","A","f","r","i","c","a"," ","c","o","a","s","t">>,
   <<"N","i","c","e",","," ","A","l","p","e","s",","," ","P","r","o","v","e","n","c","e",","," ","F","r","a","n","c","e">>, <<" ",","," ",","," ">>, <<"M","o","s","c","o","w",",">>, <<","," ","R","u","s","s","i","a">>,
   <<"r","u","s","s","i","a">>, <<"N","e","w"," ","M","e","x","i","c","o">>, <<"M","o","s","c","o","w",","," ","R","u","s","s","i","a",","," ","F","L">>, <<"M","i","a","m","i",",","F","L",",",",","I","n","d","i","a","n","a"," ">>,
   <<"N","e","a","r"," ","K","i","e","v",","," ","U","k","r","a","i","n","e",","," ","U","S","S","R",","," ","S","o","v","i","e","t"," ","U","n","i","o","n",","," ","E","u","r","o","p","e">>}

LocationCells ==
  Cells(Texts(LocationChunks, MaxLocationChunks) \cup LocationExamples)

AircraftChunks ==
  {<<"B","o","e","i","n","g"," ">>, <<"7","3","7","-","8","0","0">>, <<"B","e","l","l"," ">>, <<"2","0","6">>, <<"T","u","-">>, <<"1","3","4">>, <<"A","n","-","2">>,
   <<"4">>, <<"G","l","i","d","e","r">>, <<"?">>, <<" ">>, <<"J","u","n","k","e","r","s">>}

AircraftExamples ==
  {<<"B","o","e","i","n","g"," ","7","3","7","-","8","0","0">>, <<"B","e","l","l"," ","2","0","6">>, <<"D","o","u","g","l","a","s"," ","D","C","-","3">>, <<"Z","e","p","p","e","l","i","n"," ","L","-","5","9">>,
   <<"d","e"," ","H","a","v","i","l","l","a","n","d"," ","D","H","C","-","6"," ","T","w","i","n"," ","O","t","t","e","r">>, <<"L","o","c","k","h","e","e","d"," ","C","-","1","3","0"," ","H","e","r","c","u","l","e","s">>}

AircraftCells ==
  Cells(Texts(AircraftChunks, MaxAircraftChunks) \cup AircraftExamples)

SummaryChunks ==
  {<<"t","a","k","e","o","f","f">>, <<" ","i","n","i","t","i","a","l"," ","c","l","i","m","b">>, <<"T","a","x","i">>, <<"l","a","n","d","i","n","g">>, <<" ","i","n"," ">>, <<"f","o","g">>,
   <<"r","a","i","n">>, <<"s","t","o","r","m">>, <<"s","n","o","w">>, <<"?">>, <<" ">>, <<"c","l","e","a","r"," ","s","k","i","e","s">>}

SummaryExamples ==
  {<<"C","r","a","s","h","e","d"," ","s","h","o","r","t","l","y"," ","a","f","t","e","r"," ","t","a","k","e","o","f","f"," ","d","u","r","i","n","g"," ","t","h","e"," ","i","n","i","t","i","a","l"," ","c","l","i","m","b",".">>,
   <<"S","t","r","u","c","k"," ","a"," ","m","o","u","n","t","a","i","n"," ","w","h","i","l","e"," ","e","n"," ","r","o","u","t","e"," ","i","n"," ","p","o","o","r"," ","v","i","s","i","b","i","l","i","t","y",".">>,
   <<"M","i","s","s","e","d"," ","a","p","p","r","o","a","c","h"," ","i","n"," ","f","r","e","e","z","i","n","g"," ","r","a","i","n",".">>,
   <<"S","e","v","e","r","e"," ","t","u","r","b","u","l","e","n","c","e"," ","i","n"," ","c","r","u","i","s","e",","," ","t","h","e","n"," ","a"," ","d","e","s","c","e","n","t",".">>,
   <<"G","u","s","t","y"," ","c","r","o","s","s","w","i","n","d"," ","o","n"," ","g","o","-","a","r","o","u","n","d",".">>}

SummaryCells ==
  Cells(Texts(SummaryChunks, MaxSummaryChunks) \cup SummaryExamples)

(* A row whose cells are all well-formed                                   *)
Row(time, fatalities, location, aircraft_type, summary) ==
  [date |-> Str(<<"J","a","n","u","a","r","y"," ","0","1",","," ","2","0","0","1">>),
   time |-> time,
   fatalities |-> fatalities,
   location |-> location,
   ground_fatalities |-> Str(<<"0">>),
   aircraft_type |-> aircraft_type,
   summary |-> summary]

PlainTime == Str(<<"1","7","1","8">>)

PlainFatalities == Str(<<"1"," ","(","p","a","s","s","e","n","g","e","r","s",":","1"," ","c","r","e","w",":","0",")">>)

PlainLocation == Str(<<"M","i","a","m","i",","," ","F","L">>)

PlainAircraft == Str(<<"B","e","l","l"," ","2","0","6">>)

PlainSummary == Str(<<"F","i","r","e"," ","o","n"," ","t","a","x","i">>)

(* The order of the columns in the file the scraper writes                 *)
ColumnOrder ==
  <<"aboard", "aircraft_type", "cn_ln", "date", "detail_url", "fatalities",
    "flight_no", "ground_fatalities", "location", "operator", "registration",
    "route", "summary", "time", "time_raw", "year_page_url">>

(* The columns of a table already normalized, ground_fatalities having     *)
(* been read under the header the scraper gives it                         *)
Normalized(r) ==
  LET present == SelectSeq(ColumnOrder, LAMBDA k : k \in DOMAIN r)
  IN [i \in 1..Len(present) |->
        [raw |-> IF present[i] = "ground_fatalities" THEN Spelling["ground"]
                 ELSE Spelling[present[i]],
         name |-> Spelling[present[i]]]]

StartTable ==
  /\ pc = "parse_date_col"
  /\ exc = NoExc
  /\ columns = Normalized(df)
  /\ pending = {}
  /\ ScraperStart

Start == StartTable /\ others = <<>>

InitTime ==
  /\ \E c \in TimeCells :
       df = Row(c, PlainFatalities, PlainLocation, PlainAircraft, PlainSummary)
  /\ Start

InitFatalities ==
  /\ \E c \in FatalityCells :
       df = Row(PlainTime, c, PlainLocation, PlainAircraft, PlainSummary)
  /\ Start

InitLocation ==
  /\ \E c \in LocationCells :
       df = Row(PlainTime, PlainFatalities, c, PlainAircraft, PlainSummary)
  /\ Start

InitAircraft ==
  /\ \E c \in AircraftCells :
       df = Row(PlainTime, PlainFatalities, PlainLocation, c, PlainSummary)
  /\ Start

InitSummary ==
  /\ \E c \in SummaryCells :
       df = Row(PlainTime, PlainFatalities, PlainLocation, PlainAircraft, c)
  /\ Start

InitClassifiers == InitAircraft \/ InitSummary

(* Tables with any subset of the columns, among them a column that is not *)
(* used by any stage and one that already bears the name of a derived     *)
(* field                                                                   *)
GroundCells == Cells({<<"0">>, <<"1","2">>, <<"?">>, <<"t","w","o">>})

WideRow(ground) ==
  ("operator" :> Str(<<"A","e","r","o","f","l","o","t">>)) @@ ("time_raw" :> Str(<<"n","o","o","n">>))
  @@ [Row(PlainTime, PlainFatalities, PlainLocation, PlainAircraft,
          PlainSummary) EXCEPT !["ground_fatalities"] = ground]

InitColumns ==
  /\ \E ground \in GroundCells :
       \E cols \in SUBSET (DOMAIN WideRow(ground)) :
         df = [c \in cols |-> WideRow(ground)[c]]
  /\ Start

(* Tables with all columns, where cells of the row may be missing          *)
OrMissing(cell) == {cell, NaN}

InitMissing ==
  /\ \E t \in OrMissing(PlainTime), f \in OrMissing(PlainFatalities),
        l \in OrMissing(PlainLocation), a \in OrMissing(PlainAircraft),
        s \in OrMissing(PlainSummary) :
       df = Row(t, f, l, a, s)
  /\ Start

(* Tables of two rows: the observed row and one other row                  *)
SubjectRows ==
  {Row(PlainTime, f, l, PlainAircraft, PlainSummary) :
     f \in {PlainFatalities, Str(<<"2","2"," "," "," ","(","p","a","s","s","e","n","g","e","r","s",":","?"," "," ","c","r","e","w",":","?",")">>), NaN},
     l \in {PlainLocation, Str(<<"M","o","s","c","o","w",","," ","R","u","s","s","i","a">>), Str(<<"A","t","l","a","n","t","i","c"," ","O","c","e","a","n">>)}}

OtherRows ==
  {Row(PlainTime, f, l, PlainAircraft, s) :
     f \in {PlainFatalities, Str(<<"c","r","e","w",":","0","?">>), Str(<<"?">>)},
     l \in {PlainLocation, Str(<<",">>), NaN},
     s \in {PlainSummary, Str(<<"s","n","o","w","s","t","o","r","m">>)}}

InitTable ==
  /\ df \in SubjectRows
  /\ \E o \in OtherRows : others = <<o>>
  /\ StartTable

SpecTable == InitTable /\ [][Next]_vars

SpecColumns == InitColumns /\ [][Next]_vars

SpecMissing == InitMissing /\ [][Next]_vars

SpecTime == InitTime /\ [][Next]_vars

SpecFatalities == InitFatalities /\ [][Next]_vars

SpecLocation == InitLocation /\ [][Next]_vars

SpecAircraft == InitAircraft /\ [][Next]_vars

SpecClassifiers == InitClassifiers /\ [][Next]_vars

SpecSummary == InitSummary /\ [][Next]_vars


(***************************************************************************)
(* Input tables for normalize_columns: one row, one or two columns under   *)
(* the headers as read                                                     *)
(***************************************************************************)
MaxHeaderChunks == 2

HeaderChunks ==
  {<<"a","b","o","a","r","d">>, <<"t","y","p","e">>, <<"c","n">>, <<"f","a","t","a","l","i","t">>, <<"f","l","i","g","h","t">>, <<"g","r","o","u","n","d">>, <<"o","p","e","r","a","t","o","r">>,
   <<"r","e","g","i","s","t","r">>, <<"t","i","m","e">>, <<" ">>, <<"_">>, <<"?">>, <<"A","C">>, <<"D","a","t","e">>}

HeaderExamples ==
  {<<"a","b","o","a","r","d">>, <<"a","i","r","c","r","a","f","t","_","t","y","p","e">>, <<"c","n","_","l","n">>, <<"d","a","t","e">>, <<"d","e","t","a","i","l","_","u","r","l">>,
   <<"f","a","t","a","l","i","t","i","e","s">>, <<"f","l","i","g","h","t","_","n","o">>, <<"g","r","o","u","n","d","_","f","a","t","a","l","i","t","i","e","s">>, <<"l","o","c","a","t","i","o","n">>,
   <<"o","p","e","r","a","t","o","r">>, <<"r","e","g","i","s","t","r","a","t","i","o","n">>, <<"r","o","u","t","e">>, <<"s","u","m","m","a","r","y">>, <<"t","i","m","e">>,
   <<"y","e","a","r","_","p","a","g","e","_","u","r","l">>, <<"a","c","_","t","y","p","e">>, <<"c","n","_","_","_","l","n">>, <<"f","l","i","g","h","t","_","#">>, <<"r","a","w","_","t","e","x","t">>,
   <<" ","D","a","t","e"," ">>, <<"T","i","m","e",":">>, <<"?","?","?">>, <<"P","i","l","o","t"," ","N","a","m","e">>, <<"R","o","u","t","e">>, <<"S","u","m","m","a","r","y">>,
   <<"L","o","c","a","t","i","o","n">>, <<"F","a","t","a","l","i","t","i","e","s"," ","T","o","t","a","l">>, <<"-","-","x","-","-">>, <<"c","r","a","s","h"," "," ","s","i","t","e"," ","(","a","p","p","r","o","x",".",")">>,
   <<"o","l","d","_","y","e","a","r","_","p","a","g","e","_","u","r","l">>, <<"l","o","c","a","t","i","o","n","s">>, <<"d","a","t","e","s">>}

Headers == (Texts(HeaderChunks, MaxHeaderChunks) \cup HeaderExamples) \ {<<>>}

PairHeaders ==
  {<<"t","i","m","e">>, <<"T","i","m","e">>, <<"f","a","t","a","l","i","t","i","e","s">>, <<"g","r","o","u","n","d","_","f","a","t","a","l","i","t","i","e","s">>, <<"t","y","p","e">>,
   <<"a","c","_","t","y","p","e">>, <<"o","p","e","r","a","t","o","r">>, <<"O","p","e","r","a","t","o","r"," ">>, <<"s","u","m","m","a","r","y">>, <<"S","u","m","m","a","r","y">>, <<"p","i","l","o","t">>}

HeaderTables ==
  {<<h>> : h \in Headers}
  \cup {hs \in PairHeaders \X PairHeaders : hs[1] # hs[2]}

HeaderCells == <<Str(<<"7">>), Str(<<"1","7","1","8">>)>>

(* The table as read_raw_data returns it                                   *)
AsRead(hs) ==
  [k \in {column_key(hs[i]) : i \in 1..Len(hs)} |->
     HeaderCells[CHOOSE i \in 1..Len(hs) : column_key(hs[i]) = k]]

InitHeaders ==
  /\ \E hs \in HeaderTables :
       /\ columns = [i \in 1..Len(hs) |-> [raw |-> hs[i], name |-> hs[i]]]
       /\ df = AsRead(hs)
  /\ others = <<>>
  /\ pc = "normalize_columns"
  /\ pending = {}
  /\ exc = NoExc
  /\ ScraperStart

clean_dataset == normalize_columns \/ Next

SpecHeaders == InitHeaders /\ [][clean_dataset]_vars

(***************************************************************************)
(* The stages of clean_dataset taken in any order                          *)
(***************************************************************************)
Stages == 1..8

any_stage ==
  /\ pc = "any_order"
  /\ \E k \in pending :
       LET x == row_stage(k, df)
       IN IF x.exc # "none"
          THEN /\ exc' = [type |-> x.exc, where |-> "any_order"]
               /\ pc' = "raised"
               /\ UNCHANGED <<df, pending>>
          ELSE /\ df' = x.val
               /\ pending' = pending \ {k}
               /\ pc' = IF pending = {k} THEN "done" ELSE "any_order"
               /\ UNCHANGED exc
  /\ UNCHANGED <<others, columns>>
  /\ ScraperIdle

Without(r, c) == [k \in DOMAIN r \ {c} |-> r[k]]

AnyOrderRows ==
  LET rows == {Row(PlainTime, f, l, PlainAircraft, s) :
                 f \in {PlainFatalities, Str(<<"c","r","e","w",":","0","?">>), NaN},
                 l \in {PlainLocation, Str(<<",">>), Str(<<"M","o","s","c","o","w",","," ","R","u","s","s","i","a">>)},
                 s \in {PlainSummary, Str(<<"s","n","o","w","s","t","o","r","m">>)}}
      plain == Row(PlainTime, PlainFatalities, PlainLocation, PlainAircraft,
                   PlainSummary)
  IN rows \cup {WideRow(Str(<<"1","2">>))}
          \cup {Without(plain, c) : c \in DOMAIN plain}

InitAnyOrder ==
  /\ df \in AnyOrderRows
  /\ others = <<>>
  /\ columns = Normalized(df)
  /\ pc = "any_order"
  /\ pending = Stages
  /\ exc = NoExc
  /\ ScraperStart

SpecAnyOrder == InitAnyOrder /\ [][any_stage]_vars

(***************************************************************************)
(* Input tables whose aircraft type or summary is one keyword of a         *)
(* classifier, between two characters that occur in no keyword             *)
(***************************************************************************)
Range(seq) == {seq[i] : i \in 1..Len(seq)}

AircraftKeywordTexts ==
  {<<"|">> \o k \o <<"|">> :
     k \in Range(HelicopterKeywords \o GliderKeywords \o AmphibianKeywords
                 \o MilitaryKeywords \o JetKeywords \o TurbopropKeywords
                 \o PistonKeywords \o VintageKeywords)}

SummaryKeywordTexts ==
  {<<"|">> \o k \o <<"|">> :
     k \in Range(GroundTaxiKeywords \o TakeoffKeywords
                 \o <<<<"i","n","i","t","i","a","l"," ","c","l","i","m","b">>, <<" ","c","l","i","m","b">>, <<"d","e","s","c","e","n","t">>>>
                 \o CruiseKeywords \o ApproachKeywords \o LandingKeywords
                 \o GoAroundKeywords \o StormKeywords \o FogKeywords
                 \o SnowKeywords \o IcingKeywords \o RainKeywords
                 \o WindKeywords \o <<<<"t","u","r","b","u","l","e","n","c","e">>>>
                 \o GoodWeatherKeywords)}

InitKeywords ==
  /\ \/ \E a \in AircraftKeywordTexts :
          df = Row(PlainTime, PlainFatalities, PlainLocation, Str(a),
                   PlainSummary)
     \/ \E s \in SummaryKeywordTexts :
          df = Row(PlainTime, PlainFatalities, PlainLocation, PlainAircraft,
                   Str(s))
  /\ Start

SpecKeywords == InitKeywords /\ [][Next]_vars

(***************************************************************************)
(* preprocess of the map analyses (src/map.py), on one row of the cleaned  *)
(* table                                                                   *)
(***************************************************************************)
COUNTRY_FIX ==
  {<<<<"U","S","A">>, <<"U","n","i","t","e","d"," ","S","t","a","t","e","s">>>>,
   <<<<"U",".","S",".","A",".">>, <<"U","n","i","t","e","d"," ","S","t","a","t","e","s">>>>,
   <<<<"U",".","S",".">>, <<"U","n","i","t","e","d"," ","S","t","a","t","e","s">>>>,
   <<<<"U","n","i","t","e","d"," ","S","t","a","t","e","s"," ","o","f"," ","A","m","e","r","i","c","a">>, <<"U","n","i","t","e","d"," ","S","t","a","t","e","s">>>>,
   <<<<"U","S">>, <<"U","n","i","t","e","d"," ","S","t","a","t","e","s">>>>,
   <<<<"E","n","g","l","a","n","d">>, <<"U","n","i","t","e","d"," ","K","i","n","g","d","o","m">>>>,
   <<<<"S","c","o","t","l","a","n","d">>, <<"U","n","i","t","e","d"," ","K","i","n","g","d","o","m">>>>,
   <<<<"W","a","l","e","s">>, <<"U","n","i","t","e","d"," ","K","i","n","g","d","o","m">>>>,
   <<<<"N","o","r","t","h","e","r","n"," ","I","r","e","l","a","n","d">>, <<"U","n","i","t","e","d"," ","K","i","n","g","d","o","m">>>>,
   <<<<"U","K">>, <<"U","n","i","t","e","d"," ","K","i","n","g","d","o","m">>>>,
   <<<<"R","u","s","s","i","a">>, <<"R","u","s","s","i","a","n"," ","F","e","d","e","r","a","t","i","o","n">>>>,
   <<<<"S","o","v","i","e","t"," ","U","n","i","o","n">>, <<"R","u","s","s","i","a">>>>}

(* Series.replace(COUNTRY_FIX): each value that equals a key is replaced   *)
(* by the value of that key, once                                          *)
replace_country_fix(v) ==
  IF v.t = "str" /\ \E p \in COUNTRY_FIX : p[1] = v.s
  THEN Str((CHOOSE p \in COUNTRY_FIX : p[1] = v.s)[2])
  ELSE v

(* astype(str) of a cell of an object column                               *)
map_astype_str(v) ==
  IF v.t = "none" THEN <<"N","o","n","e">>
  ELSE IF v.t \in {"nan", "NA"} THEN <<"n","a","n">>
  ELSE v.s

(* .astype(str).str.strip().replace({"": NA, "nan": NA, "None": NA})       *)
normalize_country(v) ==
  LET s == strip(map_astype_str(v))
  IN IF s \in {<<>>, <<"n","a","n">>, <<"N","o","n","e">>} THEN NA ELSE Str(s)

IsIsoDate(s) ==
  /\ Len(s) = 10
  /\ s[5] = "-" /\ s[8] = "-"
  /\ \A i \in {1, 2, 3, 4, 6, 7, 9, 10} : s[i] \in Digit
  /\ int(SubSeq(s, 6, 7)) \in 1..12
  /\ int(SubSeq(s, 9, 10)) \in 1..28

(* pd.to_datetime(cell, errors="coerce") for the dates of the cleaned file *)
map_to_datetime(v) ==
  IF v.t = "str" /\ (IsIsoDate(v.s) \/ v.s \in ParseableDates)
  THEN [t |-> "datetime", s |-> v.s, n |-> 0]
  ELSE NaT

(* .dt.year                                                                *)
dt_year(d) ==
  IF d.t # "datetime" THEN NaN
  ELSE IF IsIsoDate(d.s) THEN IntV(int(SubSeq(d.s, 1, 4)))
  ELSE IntV(int(SubSeq(d.s, Len(d.s) - 3, Len(d.s))))

(* (year // 10) * 10                                                       *)
decade_of(y) == IF y.t = "int" THEN IntV((y.n \div 10) * 10) ELSE NaN

(* .astype(str).str.extract(r"(\d+)", expand=False).astype(float)          *)
extract_aboard(v) ==
  LET digits == re_search_digits(map_astype_str(v))
  IN IF digits = <<>> THEN NaN ELSE IntV(int(digits))

Inf == [t |-> "inf", s |-> <<>>, n |-> 0]

(* fatalities_total / aboard_total, the quotient kept as a fraction        *)
fatality_ratio(f, a) ==
  IF f.t # "int" \/ a.t # "int" THEN NaN
  ELSE IF a.n = 0 THEN (IF f.n = 0 THEN NaN ELSE Inf)
  ELSE [t |-> "float", s |-> decimal(f.n) \o <<"/">> \o decimal(a.n), n |-> 0]

preprocess_row(r) ==
  LET date_parsed ==
        IF "date_parsed" \in DOMAIN r THEN map_to_datetime(r["date_parsed"])
        ELSE IF "date" \in DOMAIN r THEN map_to_datetime(r["date"])
        ELSE NaT
      year == dt_year(date_parsed)
      fatalities_total ==
        IF "fatalities_total" \in DOMAIN r
        THEN to_numeric(r["fatalities_total"]) ELSE NA
      aboard_total ==
        IF "aboard_total" \in DOMAIN r THEN to_numeric(r["aboard_total"])
        ELSE IF "aboard" \in DOMAIN r THEN extract_aboard(r["aboard"])
        ELSE NA
      country ==
        IF "location_country" \in DOMAIN r THEN r["location_country"]
        ELSE IF "country" \in DOMAIN r THEN r["country"]
        ELSE None
      kept == [k \in DOMAIN r \ (IF "location_country" \in DOMAIN r THEN {}
                                 ELSE {"country"}) |-> r[k]]
  IN ("date_parsed" :> date_parsed) @@ ("year" :> year)
     @@ ("decade" :> decade_of(year))
     @@ ("fatalities_total" :> fatalities_total)
     @@ ("aboard_total" :> aboard_total)
     @@ ("fatality_ratio" :> fatality_ratio(fatalities_total, aboard_total))
     @@ ("location_country" :>
           replace_country_fix(normalize_country(country)))
     @@ kept

preprocess ==
  /\ pc = "preprocess"
  /\ df' = preprocess_row(df)
  /\ others' = [i \in 1..Len(others) |-> preprocess_row(others[i])]
  /\ pc' = "preprocessed"
  /\ UNCHANGED <<columns, pending, exc>>
  /\ ScraperIdle

(* Rows of the cleaned file as load_data returns them                      *)
CountryCells ==
  {Str(p[1]) : p \in COUNTRY_FIX} \cup {Str(p[2]) : p \in COUNTRY_FIX}
  \cup {Str(<<"F","r","a","n","c","e">>), Str(<<" ","U","S","A"," ">>), Str(<<"u","s","a">>), Str(<<"S","o","v","i","e","t"," ","U","n","i","o","n"," ">>),
        Str(<<"n","a","n">>), Str(<<"N","o","n","e">>), Str(<<" ">>), Str(<<"U","S","S","R">>), NaN}

AboardCells ==
  {Str(<<"2"," ","(","p","a","s","s","e","n","g","e","r","s",":","1"," ","c","r","e","w",":","1",")">>), Str(<<"0">>), Str(<<"?">>), NaN}

TotalCells == {IntV(0), IntV(2), NaN}

MapRows ==
  {[date_parsed |-> d, fatalities_total |-> f, aboard |-> a,
    location_country |-> c] :
     d \in {Str(<<"1","9","8","7","-","1","2","-","2","5">>), NaN}, f \in TotalCells, a \in AboardCells,
     c \in CountryCells}
  \cup {[date |-> Str(<<"J","a","n","u","a","r","y"," ","0","1",","," ","2","0","0","1">>), aboard_total |-> IntV(4),
         fatalities_total |-> IntV(2), country |-> c] : c \in CountryCells}
  \cup {[summary |-> PlainSummary]}

InitMap ==
  /\ df \in MapRows
  /\ others = <<>>
  /\ columns = <<>>
  /\ pc = "preprocess"
  /\ pending = {}
  /\ exc = NoExc
  /\ ScraperStart

SpecMap == InitMap /\ [][preprocess]_vars

(***************************************************************************)
(* The scraper (src/data_scraping.py).  A URL, a label and a value are     *)
(* Python strings; a record is a dict from keys to values.                 *)
(***************************************************************************)
BASE_URL == <<"h","t","t","p",":","/","/","p","/">>

(* The characters of the URLs and keys of the model in code point order    *)
CharOrder == <<" ","#","(",")",".","-","/","0","1","2","3","4","5","6","7","8","9",":","A","B","C","D","E","F","G","H","I","J","K","L","M","N","O","P","Q","R","S","T","U","V","W","X","Y","Z","_","a","b","c","d","e","f","g","h","i","j","k","l","m","n","o","p","q","r","s","t","u","v","w","x","y","z">>

ord(c) == CHOOSE n \in 1..Len(CharOrder) : CharOrder[n] = c

(* a <= b for Python strings                                               *)
RECURSIVE str_le(_, _)
str_le(a, b) ==
  IF a = <<>> THEN TRUE
  ELSE IF b = <<>> THEN FALSE
  ELSE IF Head(a) = Head(b) THEN str_le(Tail(a), Tail(b))
  ELSE ord(Head(a)) < ord(Head(b))

(* sorted(S) for a set of strings: the n-th string has n - 1 strings of S *)
(* before it                                                               *)
sorted(S) ==
  [n \in 1..Cardinality(S) |->
     CHOOSE x \in S : Cardinality({y \in S : y # x /\ str_le(y, x)}) = n - 1]

(* s.endswith(k)                                                           *)
endswith(s, k) ==
  Len(k) <= Len(s) /\ SubSeq(s, Len(s) - Len(k) + 1, Len(s)) = k

(* urljoin(base, href) for an absolute href and for a plain relative one   *)
urljoin(base, href) ==
  IF contains(<<":","/","/">>, href) THEN href
  ELSE LET slashes == {p \in 1..Len(base) : base[p] = "/"}
       IN SubSeq(base, 1, Max(slashes)) \o href

DATABASE_URL == urljoin(BASE_URL, <<"d","a","t","a","b","a","s","e",".","h","t","m">>)

(* The links kept from the hrefs of a page fetched from base: sorted(set)  *)
page_links(base, hrefs) ==
  sorted({urljoin(base, strip(hrefs[n])) :
            n \in {n \in 1..Len(hrefs) :
                     /\ endswith(lower(strip(hrefs[n])), <<".","h","t","m">>)
                     /\ ~contains(<<"d","a","t","a","b","a","s","e">>, lower(strip(hrefs[n])))}})

(* s.replace(a, b) for a one-character a and a b of at most one character  *)
RECURSIVE str_replace(_, _, _)
str_replace(s, a, b) ==
  IF s = <<>> THEN <<>>
  ELSE (IF Head(s) = a THEN b ELSE <<Head(s)>>) \o str_replace(Tail(s), a, b)

(* s.rstrip(":")                                                           *)
RECURSIVE rstrip_colon(_)
rstrip_colon(s) ==
  IF s # <<>> /\ s[Len(s)] = ":"
  THEN rstrip_colon(SubSeq(s, 1, Len(s) - 1))
  ELSE s

(* The CSV-friendly key of a label cell                                    *)
norm_label(cell) ==
  LET label == rstrip_colon(strip(cell))
  IN strip_underscores(
       str_replace(
         str_replace(
           str_replace(
             str_replace(
               str_replace(lower(label), " ", <<"_">>),
               "/", <<"_">>),
             "(", <<>>),
           ")", <<>>),
         "-", <<"_">>))

(* " ".join(texts)                                                         *)
RECURSIVE join_space(_)
join_space(texts) ==
  IF texts = <<>> THEN <<>>
  ELSE IF Len(texts) = 1 THEN texts[1]
  ELSE texts[1] \o <<" ">> \o join_space(Tail(texts))

NonEmptyText(t) == t # <<>>

(* The label/value rows of the table written into the record, in order     *)
RECURSIVE table_rows(_, _)
table_rows(record, rows) ==
  IF rows = <<>> THEN record
  ELSE LET cells == Head(rows)
       IN IF Len(cells) < 2 \/ norm_label(cells[1]) = <<>>
          THEN table_rows(record, Tail(rows))
          ELSE table_rows((norm_label(cells[1]) :> strip(cells[2])) @@ record,
                          Tail(rows))

(* parse_accident_detail on the page fetched for accident_url              *)
parse_accident_detail(accident_url, page) ==
  LET start == (<<"d","e","t","a","i","l","_","u","r","l">> :> accident_url)
      texts == SelectSeq([n \in 1..Len(page.paragraphs) |->
                            strip(page.paragraphs[n])], NonEmptyText)
  IN IF ~page.table
     THEN (<<"r","a","w","_","t","e","x","t">> :> strip(page.text)) @@ start
     ELSE LET record == table_rows(start, page.rows)
          IN IF texts # <<>> /\ <<"s","u","m","m","a","r","y">> \notin DOMAIN record
             THEN (<<"s","u","m","m","a","r","y">> :> join_space(texts)) @@ record
             ELSE record

(* main: the year loop continues with the next year page after a failure  *)
after_year_failure_break(i) == Len(year_links) + 1

after_year_failure(i) == i + 1

(* What a fetch can return: a page, or an exception (None)                 *)
DatabasePages ==
  {<<<<"y","1",".","h","t","m">>, <<" ","y","2",".","h","t","m"," ">>, <<"d","a","t","a","b","a","s","e",".","h","t","m">>>>,
   <<<<"h","t","t","p",":","/","/","p","/","y","1",".","h","t","m">>, <<"y","1",".","h","t","m">>, <<"i","n","d","e","x",".","h","t","m","l">>>>,
   <<>>}

YearPages ==
  {<<<<"b",".","h","t","m">>, <<"a",".","h","t","m">>>>,
   <<<<"a",".","h","t","m">>, <<"h","t","t","p",":","/","/","p","/","a",".","h","t","m">>, <<"D","a","t","a","b","a","s","e",".","h","t","m">>>>,
   <<<<"A",".","H","T","M">>>>,
   <<>>}

DetailPages ==
  {[table |-> TRUE,
    rows |-> <<<<<<"D","a","t","e",":">>, <<" ","x"," ">>>>, <<<<"A","C"," ","T","y","p","e",":">>, <<"y">>>>, <<<<"o","n","l","y">>>>,
               <<<<":">>, <<"z">>>>>>,
    paragraphs |-> <<<<" ","s"," ">>, <<>>, <<"t">>>>, text |-> <<"x"," ","y"," ","s"," ","t">>],
   [table |-> TRUE,
    rows |-> <<<<<<"S","u","m","m","a","r","y",":">>, <<"u">>>>, <<<<"c","n"," ","/"," ","l","n",":">>, <<"1">>>>>>,
    paragraphs |-> <<<<"s">>>>, text |-> <<"u"," ","1"," ","s">>],
   [table |-> TRUE,
    rows |-> <<<<<<"D","e","t","a","i","l"," ","U","R","L",":">>, <<"h","t","t","p",":","/","/","p","/","a",".","h","t","m">>>>>>,
    paragraphs |-> <<>>, text |-> <<"h","t","t","p",":","/","/","p","/","a",".","h","t","m">>],
   [table |-> FALSE, rows |-> <<>>, paragraphs |-> <<<<"s">>>>,
    text |-> <<" ","s"," ">>]}

get_year_links ==
  /\ pc = "get_year_links"
  /\ requested' = requested \cup {DATABASE_URL}
  /\ \/ /\ exc' = [type |-> "RequestException", where |-> "get_year_links"]
        /\ pc' = "raised"
        /\ UNCHANGED year_links
     \/ /\ \E hrefs \in DatabasePages :
             year_links' = page_links(BASE_URL, hrefs)
        /\ pc' = "year_loop"
        /\ UNCHANGED exc
  /\ UNCHANGED <<year_index, accident_links, acc_index, all_records,
                 visited_detail_urls, csv_file>>

(* One turn of the year loop: get_accident_links_for_year                  *)
year_page ==
  /\ pc = "year_loop"
  /\ year_index <= Len(year_links)
  /\ requested' = requested \cup {year_links[year_index]}
  /\ \/ /\ year_index' = after_year_failure(year_index)
        /\ UNCHANGED <<accident_links, acc_index, pc>>
     \/ /\ \E hrefs \in YearPages :
             accident_links' = page_links(year_links[year_index], hrefs)
        /\ acc_index' = 1
        /\ pc' = "accident_loop"
        /\ UNCHANGED year_index
  /\ UNCHANGED <<year_links, all_records, visited_detail_urls, csv_file, exc>>

(* One turn of the accident loop                                           *)
accident_page ==
  /\ pc = "accident_loop"
  /\ acc_index <= Len(accident_links)
  /\ LET acc_url == accident_links[acc_index]
     IN IF acc_url \in visited_detail_urls
        THEN UNCHANGED <<all_records, visited_detail_urls, requested>>
        ELSE /\ requested' = requested \cup {acc_url}
             /\ \/ UNCHANGED <<all_records, visited_detail_urls>>
                \/ \E page \in DetailPages :
                     /\ all_records' =
                          Append(all_records,
                                 (<<"y","e","a","r","_","p","a","g","e","_","u","r","l">> :> year_links[year_index])
                                 @@ parse_accident_detail(acc_url, page))
                     /\ visited_detail_urls' =
                          visited_detail_urls \cup {acc_url}
  /\ acc_index' = acc_index + 1
  /\ UNCHANGED <<year_links, year_index, accident_links, csv_file, pc, exc>>

(* The accident loop is exhausted: on to the next year page                *)
next_year ==
  /\ pc = "accident_loop"
  /\ acc_index > Len(accident_links)
  /\ year_index' = year_index + 1
  /\ pc' = "year_loop"
  /\ UNCHANGED <<year_links, accident_links, acc_index, all_records,
                 visited_detail_urls, requested, csv_file, exc>>

(* The header of the file: the sorted union of the keys of the records    *)
write_header ==
  /\ pc = "year_loop"
  /\ year_index > Len(year_links)
  /\ csv_file' =
       [header |-> sorted(UNION {DOMAIN all_records[n] :
                                   n \in 1..Len(all_records)}),
        rows |-> <<>>]
  /\ pc' = "write_rows"
  /\ UNCHANGED <<year_links, year_index, accident_links, acc_index,
                 all_records, visited_detail_urls, requested, exc>>

(* csv.DictWriter.writerow for each record, a missing key written as the   *)
(* empty string                                                            *)
write_rows ==
  /\ pc = "write_rows"
  /\ csv_file' =
       [header |-> csv_file.header,
        rows |-> [n \in 1..Len(all_records) |->
                    [m \in 1..Len(csv_file.header) |->
                       IF csv_file.header[m] \in DOMAIN all_records[n]
                       THEN all_records[n][csv_file.header[m]] ELSE <<>>]]]
  /\ pc' = "written"
  /\ UNCHANGED <<year_links, year_index, accident_links, acc_index,
                 all_records, visited_detail_urls, requested, exc>>

main ==
  /\ \/ get_year_links
     \/ year_page
     \/ accident_page
     \/ next_year
     \/ write_header
     \/ write_rows
  /\ UNCHANGED <<df, others, columns, pending>>

InitScraper ==
  /\ ScraperStart
  /\ pc = "get_year_links"
  /\ exc = NoExc
  /\ df = <<>>
  /\ others = <<>>
  /\ columns = <<>>
  /\ pending = {}

SpecScraper == InitScraper /\ [][main]_vars

(* Every enabled step of main is eventually taken: the process runs on,    *)
(* and each request ends with a response or an exception.                  *)
SpecScraperLive == SpecScraper /\ WF_vars(main)

(***************************************************************************)
(* Properties                                                              *)
(***************************************************************************)
Blank(s) == \A i \in 1..Len(s) : s[i] \in Whitespace

PastFatalities == pc \notin {"parse_date_col", "parse_time_col", "fatalities"}

PastLocation == PastFatalities /\ pc # "location"

FatalityColumns ==
  {"fatalities_total", "fatalities_passengers", "fatalities_crew"}

LocationColumns == {"location_city", "location_state", "location_country"}

(* C1: parse_fatalities never raises: for every fatalities text the three  *)
(* results exist once the stage has run, each an integer or absent.        *)
C1_ParseFatalitiesTotal ==
  PastFatalities =>
    /\ exc.where # "parse_fatalities"
    /\ FatalityColumns \subseteq DOMAIN df
    /\ \A c \in FatalityColumns : df[c].t \in {"int", "nan"}

(* C2: split_location never raises: for every location text the three      *)
(* results (city_region, state_region, country) exist once the stage has   *)
(* run, each a string or absent.                                           *)
C2_SplitLocationTotal ==
  PastLocation =>
    /\ exc.where # "split_location"
    /\ LocationColumns \subseteq DOMAIN df
    /\ \A c \in LocationColumns : df[c].t \in {"str", "none"}

ClockValue(a, b) == 10 * DigitVal(a) + DigitVal(b)

IsClockText(s) ==
  /\ Len(s) = 5
  /\ s[1] \in Digit /\ s[2] \in Digit /\ s[3] = ":"
  /\ s[4] \in Digit /\ s[5] \in Digit
  /\ ClockValue(s[1], s[2]) <= 23
  /\ ClockValue(s[4], s[5]) <= 59

(* C3: every result of the time parser is absent or a text of the shape    *)
(* two digits, colon, two digits with HH <= 23 and MM <= 59.               *)
C3_TimeValidity ==
  "time_hhmm" \in DOMAIN df =>
    \/ df["time_hhmm"] = None
    \/ df["time_hhmm"].t = "str" /\ IsClockText(df["time_hhmm"].s)

C3_Witness ==
  /\ "time_hhmm" \in DOMAIN df
  /\ df["time"] = Str(<<"c",":"," ","1","7",":","1","8">>)
  /\ df["time_hhmm"] = Str(<<"1","7",":","1","8">>)

AircraftLabels ==
  {<<"H","e","l","i","c","o","p","t","e","r">>, <<"G","l","i","d","e","r">>, <<"A","m","p","h","i","b","i","a","n","/","S","e","a","p","l","a","n","e">>, <<"M","i","l","i","t","a","r","y">>, <<"J","e","t">>,
   <<"T","u","r","b","o","p","r","o","p">>, <<"P","i","s","t","o","n","/","P","r","o","p">>, <<"V","i","n","t","a","g","e","/","E","a","r","l","y">>, <<"U","n","k","n","o","w","n">>,
   <<"O","t","h","e","r","/","U","n","m","a","p","p","e","d">>}

PhaseLabels ==
  {<<"G","r","o","u","n","d","/","T","a","x","i">>, <<"T","a","k","e","o","f","f">>, <<"I","n","i","t","i","a","l"," ","c","l","i","m","b">>, <<"C","l","i","m","b">>, <<"C","r","u","i","s","e">>,
   <<"D","e","s","c","e","n","t">>, <<"A","p","p","r","o","a","c","h">>, <<"L","a","n","d","i","n","g">>, <<"G","o","-","a","r","o","u","n","d">>, <<"U","n","k","n","o","w","n">>}

WeatherLabels ==
  {<<"S","t","o","r","m","/","T","h","u","n","d","e","r","s","t","o","r","m">>, <<"F","o","g","/","L","o","w"," ","v","i","s","i","b","i","l","i","t","y">>, <<"S","n","o","w","/","I","c","y"," ","s","u","r","f","a","c","e">>,
   <<"I","c","i","n","g"," ","(","i","n","-","f","l","i","g","h","t",")">>, <<"R","a","i","n">>, <<"W","i","n","d","/","W","i","n","d"," ","s","h","e","a","r">>, <<"T","u","r","b","u","l","e","n","c","e">>,
   <<"G","o","o","d","/","V","i","s","u","a","l"," ","c","o","n","d","i","t","i","o","n","s">>, <<"N","o","n","e","/","N","o","t"," ","m","e","n","t","i","o","n","e","d">>}

HasLabel(col, labels) ==
  col \in DOMAIN df => df[col].t = "str" /\ df[col].s \in labels

(* C4: for every aircraft text and every summary text each classifier      *)
(* returns a member of its fixed label set, never an empty or other label. *)
C4_LabelsInSet ==
  /\ HasLabel("aircraft_category", AircraftLabels)
  /\ HasLabel("phase_clean", PhaseLabels)
  /\ HasLabel("weather_condition", WeatherLabels)
  /\ pc = "done" =>
       {"aircraft_category", "phase_clean", "weather_condition"}
         \subseteq DOMAIN df

C4_Witness ==
  /\ pc = "done"
  /\ df["summary"] = Str(<<"s","t","o","r","m"," ","i","n"," ","f","o","g">>)
  /\ df["aircraft_category"] = Str(<<"H","e","l","i","c","o","p","t","e","r">>)
  /\ df["phase_clean"] = Str(<<"U","n","k","n","o","w","n">>)
  /\ df["weather_condition"] = Str(<<"S","t","o","r","m","/","T","h","u","n","d","e","r","s","t","o","r","m">>)

(* C5: an aircraft_type cell that is missing, empty, blank or "?" gets the *)
(* aircraft_category "Unknown".                                            *)
C5_PlaceholderIsUnknown ==
  ("aircraft_category" \in DOMAIN df
     /\ \/ df["aircraft_type"] = NaN
        \/ df["aircraft_type"].t = "str"
             /\ (Blank(df["aircraft_type"].s) \/ df["aircraft_type"].s = <<"?">>))
    => df["aircraft_category"] = Str(<<"U","n","k","n","o","w","n">>)

RECURSIVE OnlyDigits(_)
OnlyDigits(s) ==
  IF s = <<>> THEN <<>>
  ELSE IF Head(s) \in Digit THEN <<Head(s)>> \o OnlyDigits(Tail(s))
  ELSE OnlyDigits(Tail(s))

(* The time of a token as the specification states it, read off the last   *)
(* four digits of the token                                                *)
ClaimedTime(tok) ==
  IF tok = <<"?">> \/ tok = <<>> THEN None
  ELSE LET d == OnlyDigits(tok)
           n == Len(d)
       IN IF n <= 2 THEN None
          ELSE LET h1 == IF n = 3 THEN "0" ELSE d[n - 3]
               IN IF ClockValue(h1, d[n - 2]) > 23
                     \/ ClockValue(d[n - 1], d[n]) > 59
                  THEN None
                  ELSE Str(<<h1, d[n - 2], ":", d[n - 1], d[n]>>)

(* C6: the time parser maps "?" and the empty token to absent, otherwise   *)
(* drops the non-digits, gives absent for at most 2 digits, pads 3 digits  *)
(* with a zero, keeps the last 4 of more than 4, and returns HH:MM unless  *)
(* HH > 23 or MM > 59; "700" gives "07:00" and "2645" gives absent.        *)
C6_TimeFunction ==
  ("time_hhmm" \in DOMAIN df /\ df["time"].t = "str") =>
    /\ df["time_hhmm"] = ClaimedTime(df["time"].s)
    /\ df["time"].s = <<"7","0","0">> => df["time_hhmm"] = Str(<<"0","7",":","0","0">>)
    /\ df["time"].s = <<"2","6","4","5">> => df["time_hhmm"] = None

C6_Witness ==
  /\ "time_hhmm" \in DOMAIN df
  /\ df["time"] = Str(<<"7","0","0">>)
  /\ df["time_hhmm"] = Str(<<"0","7",":","0","0">>)

Unspecified == [t |-> "unspecified", s |-> <<>>, n |-> 0]

LabelAt(label, s, p) ==
  /\ p + Len(label) - 1 <= Len(s)
  /\ \A k \in 1..Len(label) : lower_char(s[p + k - 1]) = label[k]

RECURSIVE DigitRunValue(_, _, _)
DigitRunValue(s, q, acc) ==
  IF q <= Len(s) /\ s[q] \in Digit
  THEN DigitRunValue(s, q + 1, acc * 10 + DigitVal(s[q]))
  ELSE acc

(* The count the specification assigns to a label: decided by the text     *)
(* that follows the first occurrence of the label                          *)
ClaimedCount(label, s) ==
  LET labels == {p \in 1..Len(s) : LabelAt(label, s, p)}
  IN IF labels = {} THEN NaN
     ELSE LET q == Min({r \in (Min(labels) + Len(label))..(Len(s) + 1) :
                          r = Len(s) + 1 \/ s[r] \notin Whitespace})
          IN IF q <= Len(s) /\ s[q] \in Digit
             THEN IntV(DigitRunValue(s, q, 0))
             ELSE IF q <= Len(s) /\ s[q] = "?" THEN NaN
             ELSE Unspecified

CountIs(col, label) ==
  ClaimedCount(label, df["fatalities"].s) # Unspecified =>
    col \in DOMAIN df /\ df[col] = ClaimedCount(label, df["fatalities"].s)

(* C7: passengers (resp. crew) is decided by the text after the first      *)
(* passengers: (resp. crew:) label, whatever the case of the label: a      *)
(* digit run there gives that integer, "?" gives absent, no label gives    *)
(* absent, whatever the total is.                                          *)
C7_CountsFollowLabels ==
  (PastFatalities /\ df["fatalities"].t = "str") =>
    /\ CountIs("fatalities_passengers", <<"p","a","s","s","e","n","g","e","r","s",":">>)
    /\ CountIs("fatalities_crew", <<"c","r","e","w",":">>)

SegmentNoise == Whitespace \cup {","}

NoComma(s, i, j) == \A p \in i..j : s[p] # ","

(* The pairs <<a, b>> such that the text consists of the two trimmed,      *)
(* comma-free, non-empty pieces a and b, separated by at least one comma,  *)
(* and otherwise of commas and blanks only                                 *)
TwoSegmentSplits(s) ==
  LET body == {p \in 1..Len(s) : s[p] \notin SegmentNoise}
  IN IF body = {} THEN {}
     ELSE LET i == Min(body)
              l == Max(body)
          IN {<<SubSeq(s, i, jk[1]), SubSeq(s, jk[2], l)>> :
                jk \in {x \in (i..l) \X (i..l) :
                  /\ x[1] < x[2]
                  /\ s[x[1]] \notin SegmentNoise
                  /\ s[x[2]] \notin SegmentNoise
                  /\ \A p \in (x[1] + 1)..(x[2] - 1) : s[p] \in SegmentNoise
                  /\ \E p \in (x[1] + 1)..(x[2] - 1) : s[p] = ","
                  /\ NoComma(s, i, x[1])
                  /\ NoComma(s, x[2], l)}}

ClaimedTwoSegments(a, b) ==
  IF b \in KNOWN_COUNTRIES THEN <<Str(a), None, Str(b)>>
  ELSE IF b \in US_STATES \cup US_ABBREVS
  THEN <<Str(a), Str(b), Str(<<"U","n","i","t","e","d"," ","S","t","a","t","e","s">>)>>
  ELSE IF \E c \in KNOWN_COUNTRIES : contains(c, b)
  THEN <<Str(a), None, Str(b)>>
  ELSE <<Str(a), Str(b), None>>

LocationTriple ==
  <<df["location_city"], df["location_state"], df["location_country"]>>

(* C8: for a location of exactly two non-empty trimmed comma segments a, b *)
(* the result is (a, absent, b) if b is a known country, else              *)
(* (a, b, United States) if b is a US state name or abbreviation, else     *)
(* (a, absent, b) if b contains a known country name, else (a, b, absent). *)
C8_TwoSegments ==
  (PastLocation /\ df["location"].t = "str") =>
    /\ \A ab \in TwoSegmentSplits(df["location"].s) :
         /\ LocationColumns \subseteq DOMAIN df
         /\ LocationTriple = ClaimedTwoSegments(ab[1], ab[2])
         /\ ab[2] \in {<<"I","n","d","i","a","n","a">>, <<"N","e","w"," ","M","e","x","i","c","o">>} =>
              df["location_country"] = Str(<<"U","n","i","t","e","d"," ","S","t","a","t","e","s">>)
    /\ df["location"].s = <<"M","o","s","c","o","w",","," ","R","u","s","s","i","a">> =>
         LocationTriple = <<Str(<<"M","o","s","c","o","w">>), None, Str(<<"R","u","s","s","i","a">>)>>
    /\ df["location"].s = <<"M","i","a","m","i",","," ","F","L">> =>
         LocationTriple = <<Str(<<"M","i","a","m","i">>), Str(<<"F","L">>), Str(<<"U","n","i","t","e","d"," ","S","t","a","t","e","s">>)>>

C8_Witness ==
  /\ PastLocation
  /\ df["location"] = Str(<<"M","o","s","c","o","w",","," ","I","n","d","i","a","n","a">>)
  /\ LocationTriple
       = <<Str(<<"M","o","s","c","o","w">>), Str(<<"I","n","d","i","a","n","a">>), Str(<<"U","n","i","t","e","d"," ","S","t","a","t","e","s">>)>>

(* C9: for every location text that is not blank at least one of the three *)
(* results is populated; all three are absent only for a missing or blank  *)
(* location.                                                               *)
C9_SomeFieldPopulated ==
  PastLocation =>
    LET blank == df["location"].t # "str" \/ Blank(df["location"].s)
    IN /\ ~blank =>
            /\ LocationColumns \subseteq DOMAIN df
            /\ \E c \in LocationColumns :
                 df[c].t = "str" /\ df[c].s # <<>>
       /\ (LocationColumns \subseteq DOMAIN df
             /\ \A c \in LocationColumns : df[c] = None) => blank

AircraftPriority ==
  <<[label |-> <<"H","e","l","i","c","o","p","t","e","r">>, keywords |-> HelicopterKeywords],
    [label |-> <<"G","l","i","d","e","r">>, keywords |-> GliderKeywords],
    [label |-> <<"A","m","p","h","i","b","i","a","n","/","S","e","a","p","l","a","n","e">>, keywords |-> AmphibianKeywords],
    [label |-> <<"M","i","l","i","t","a","r","y">>, keywords |-> MilitaryKeywords],
    [label |-> <<"J","e","t">>, keywords |-> JetKeywords],
    [label |-> <<"T","u","r","b","o","p","r","o","p">>, keywords |-> TurbopropKeywords],
    [label |-> <<"P","i","s","t","o","n","/","P","r","o","p">>, keywords |-> PistonKeywords],
    [label |-> <<"V","i","n","t","a","g","e","/","E","a","r","l","y">>, keywords |-> VintageKeywords]>>

(* The first category of the priority list with a keyword in the text      *)
FirstMatch(priority, text, fallback) ==
  LET hits == {i \in 1..Len(priority) :
                 \E j \in 1..Len(priority[i].keywords) :
                   contains(priority[i].keywords[j], text)}
  IN IF hits = {} THEN fallback ELSE priority[Min(hits)].label

NotBlank(c) == c \notin Whitespace

IsPlaceholder(s) == Blank(s) \/ SelectSeq(s, NotBlank) = <<"?">>

(* C10: on a text that is not a placeholder categorize_aircraft returns    *)
(* the first category, in the order Helicopter, Glider,                    *)
(* Amphibian/Seaplane, Military, Jet, Turboprop, Piston/Prop,              *)
(* Vintage/Early, with a keyword inside the lower-cased text, and          *)
(* Other/Unmapped without any; "Boeing 737-800" is Jet, "Bell 206" is      *)
(* Helicopter.                                                             *)
C10_AircraftPriority ==
  ("aircraft_category" \in DOMAIN df /\ df["aircraft_type"].t = "str"
     /\ ~IsPlaceholder(df["aircraft_type"].s)) =>
    /\ df["aircraft_category"]
         = Str(FirstMatch(AircraftPriority, lower(df["aircraft_type"].s),
                          <<"O","t","h","e","r","/","U","n","m","a","p","p","e","d">>))
    /\ df["aircraft_type"].s = <<"B","o","e","i","n","g"," ","7","3","7","-","8","0","0">> =>
         df["aircraft_category"] = Str(<<"J","e","t">>)
    /\ df["aircraft_type"].s = <<"B","e","l","l"," ","2","0","6">> =>
         df["aircraft_category"] = Str(<<"H","e","l","i","c","o","p","t","e","r">>)

C10_Witness ==
  /\ "aircraft_category" \in DOMAIN df
  /\ df["aircraft_type"] = Str(<<"T","u","-","1","3","4">>)
  /\ df["aircraft_category"] = Str(<<"M","i","l","i","t","a","r","y">>)

PhasePriority ==
  <<[label |-> <<"G","r","o","u","n","d","/","T","a","x","i">>, keywords |-> GroundTaxiKeywords],
    [label |-> <<"T","a","k","e","o","f","f">>, keywords |-> TakeoffKeywords],
    [label |-> <<"I","n","i","t","i","a","l"," ","c","l","i","m","b">>, keywords |-> <<<<"i","n","i","t","i","a","l"," ","c","l","i","m","b">>>>],
    [label |-> <<"C","l","i","m","b">>, keywords |-> <<<<" ","c","l","i","m","b">>>>],
    [label |-> <<"C","r","u","i","s","e">>, keywords |-> CruiseKeywords],
    [label |-> <<"D","e","s","c","e","n","t">>, keywords |-> <<<<"d","e","s","c","e","n","t">>>>],
    [label |-> <<"A","p","p","r","o","a","c","h">>, keywords |-> ApproachKeywords],
    [label |-> <<"L","a","n","d","i","n","g">>, keywords |-> LandingKeywords],
    [label |-> <<"G","o","-","a","r","o","u","n","d">>, keywords |-> GoAroundKeywords]>>

HasKeyword(keywords, text) ==
  \E j \in 1..Len(keywords) : contains(keywords[j], text)

(* C11: extract_phase returns the first category, in the order Ground/Taxi, *)
(* Takeoff, Initial climb, Climb, Cruise, Descent, Approach, Landing,      *)
(* Go-around, with a keyword inside the lower-cased summary, wherever the  *)
(* keywords stand, and Unknown without any; a summary with "takeoff" and   *)
(* "initial climb" and no Ground/Taxi keyword gives Takeoff.               *)
C11_PhasePriority ==
  ("phase_clean" \in DOMAIN df /\ df["summary"].t = "str") =>
    LET text == lower(df["summary"].s)
    IN /\ df["phase_clean"] = Str(FirstMatch(PhasePriority, text, <<"U","n","k","n","o","w","n">>))
       /\ (contains(<<"t","a","k","e","o","f","f">>, text) /\ contains(<<"i","n","i","t","i","a","l"," ","c","l","i","m","b">>, text)
             /\ ~HasKeyword(GroundTaxiKeywords, text))
            => df["phase_clean"] = Str(<<"T","a","k","e","o","f","f">>)

C11_Witness ==
  /\ "phase_clean" \in DOMAIN df
  /\ df["summary"] = Str(<<" ","i","n","i","t","i","a","l"," ","c","l","i","m","b","t","a","k","e","o","f","f">>)
  /\ df["phase_clean"] = Str(<<"T","a","k","e","o","f","f">>)

WeatherPriority ==
  <<[label |-> <<"S","t","o","r","m","/","T","h","u","n","d","e","r","s","t","o","r","m">>, keywords |-> StormKeywords],
    [label |-> <<"F","o","g","/","L","o","w"," ","v","i","s","i","b","i","l","i","t","y">>, keywords |-> FogKeywords],
    [label |-> <<"S","n","o","w","/","I","c","y"," ","s","u","r","f","a","c","e">>, keywords |-> SnowKeywords],
    [label |-> <<"I","c","i","n","g"," ","(","i","n","-","f","l","i","g","h","t",")">>, keywords |-> IcingKeywords],
    [label |-> <<"R","a","i","n">>, keywords |-> RainKeywords],
    [label |-> <<"W","i","n","d","/","W","i","n","d"," ","s","h","e","a","r">>, keywords |-> WindKeywords],
    [label |-> <<"T","u","r","b","u","l","e","n","c","e">>, keywords |-> <<<<"t","u","r","b","u","l","e","n","c","e">>>>],
    [label |-> <<"G","o","o","d","/","V","i","s","u","a","l"," ","c","o","n","d","i","t","i","o","n","s">>, keywords |-> GoodWeatherKeywords]>>

(* C12: extract_weather returns None/Not mentioned for an empty, blank or  *)
(* "?" summary, otherwise the first category, in the order                 *)
(* Storm/Thunderstorm, Fog/Low visibility, Snow/Icy surface,               *)
(* Icing (in-flight), Rain, Wind/Wind shear, Turbulence,                   *)
(* Good/Visual conditions, with a keyword inside the lower-cased summary,  *)
(* and None/Not mentioned without any.                                     *)
C12_WeatherPriority ==
  ("weather_condition" \in DOMAIN df /\ df["summary"].t = "str") =>
    df["weather_condition"]
      = IF IsPlaceholder(df["summary"].s) THEN Str(<<"N","o","n","e","/","N","o","t"," ","m","e","n","t","i","o","n","e","d">>)
        ELSE Str(FirstMatch(WeatherPriority, lower(df["summary"].s),
                            <<"N","o","n","e","/","N","o","t"," ","m","e","n","t","i","o","n","e","d">>))

C12_Witness ==
  /\ "weather_condition" \in DOMAIN df
  /\ df["summary"] = Str(<<"s","n","o","w","s","t","o","r","m">>)
  /\ df["weather_condition"] = Str(<<"S","t","o","r","m","/","T","h","u","n","d","e","r","s","t","o","r","m">>)

SevenAdverse ==
  {<<"S","t","o","r","m","/","T","h","u","n","d","e","r","s","t","o","r","m">>, <<"F","o","g","/","L","o","w"," ","v","i","s","i","b","i","l","i","t","y">>, <<"S","n","o","w","/","I","c","y"," ","s","u","r","f","a","c","e">>,
   <<"I","c","i","n","g"," ","(","i","n","-","f","l","i","g","h","t",")">>, <<"R","a","i","n">>, <<"W","i","n","d","/","W","i","n","d"," ","s","h","e","a","r">>, <<"T","u","r","b","u","l","e","n","c","e">>}

(* C13: for a record with a summary field weather_adverse is true exactly  *)
(* when weather_condition is one of the seven adverse labels, and false    *)
(* exactly when it is Good/Visual conditions or None/Not mentioned.        *)
C13_AdverseIffSeven ==
  ("weather_adverse" \in DOMAIN df /\ "summary" \in DOMAIN df) =>
    /\ df["weather_adverse"] \in {Bool(TRUE), Bool(FALSE)}
    /\ df["weather_adverse"] = Bool(TRUE)
         <=> df["weather_condition"].s \in SevenAdverse
    /\ df["weather_adverse"] = Bool(FALSE)
         <=> df["weather_condition"].s
               \in {<<"G","o","o","d","/","V","i","s","u","a","l"," ","c","o","n","d","i","t","i","o","n","s">>, <<"N","o","n","e","/","N","o","t"," ","m","e","n","t","i","o","n","e","d">>}

C13_Witness ==
  /\ "weather_adverse" \in DOMAIN df
  /\ df["weather_condition"] = Str(<<"G","o","o","d","/","V","i","s","u","a","l"," ","c","o","n","d","i","t","i","o","n","s">>)
  /\ df["weather_adverse"] = Bool(FALSE)

OutputFields ==
  {"date_parsed", "time_raw", "time_hhmm", "fatalities_total",
   "fatalities_passengers", "fatalities_crew", "location_city",
   "location_state", "location_country", "ground_fatalities",
   "aircraft_category", "phase_clean", "weather_condition",
   "weather_adverse"}

(* C14: whichever columns the input table has, the cleaned table has all   *)
(* fourteen output fields.                                                 *)
C14_AllOutputFields == pc = "done" => OutputFields \subseteq DOMAIN df

CanonicalFields ==
  {"aboard", "aircraft_type", "cn_ln", "date", "detail_url", "fatalities",
   "flight_no", "ground_fatalities", "location", "operator", "registration",
   "route", "summary", "time", "year_page_url"}

(* C15, as stated: no step of clean_dataset changes the value of a         *)
(* canonical field of the record; steps only add fields.                   *)
C15_CanonicalFieldsKept ==
  [][\A c \in CanonicalFields \cap DOMAIN df :
       c \in DOMAIN df' /\ df'[c] = df[c]]_vars

(* C15, amended: no step of clean_dataset changes the value of a field     *)
(* that does not bear the name of an output field; ground_fatalities is    *)
(* replaced in place by a number or by the missing marker.                 *)
C15_SourceFieldsKept ==
  [][/\ \A c \in DOMAIN df \ OutputFields :
          c \in DOMAIN df' /\ df'[c] = df[c]
     /\ "ground_fatalities" \in DOMAIN df =>
          /\ "ground_fatalities" \in DOMAIN df'
          /\ \/ df'["ground_fatalities"] = df["ground_fatalities"]
             \/ df'["ground_fatalities"].t \in {"int", "nan"}]_vars

C15_Witness ==
  /\ pc = "done"
  /\ {"ground_fatalities", "operator", "summary", "time_raw"} \subseteq DOMAIN df
  /\ df["ground_fatalities"] = IntV(12)
  /\ df["operator"] = Str(<<"A","e","r","o","f","l","o","t">>)
  /\ df["summary"] = PlainSummary
  /\ df["time_raw"] = PlainTime

(* C17: a missing cell in an existing column never raises: the fatality    *)
(* counts and the location fields are all absent, the time is absent, the  *)
(* phase is Unknown, the weather is None/Not mentioned and not adverse.    *)
C17_MissingCellsDegrade ==
  /\ exc = NoExc /\ pc # "raised"
  /\ (df["fatalities"] = NaN /\ PastFatalities) =>
       /\ FatalityColumns \subseteq DOMAIN df
       /\ \A c \in FatalityColumns : df[c] = NaN
  /\ (df["location"] = NaN /\ PastLocation) =>
       /\ LocationColumns \subseteq DOMAIN df
       /\ \A c \in LocationColumns : df[c] = None
  /\ (df["time"] = NaN /\ pc \notin {"parse_date_col", "parse_time_col"}) =>
       "time_hhmm" \in DOMAIN df /\ df["time_hhmm"] = None
  /\ (df["summary"] = NaN /\ pc = "done") =>
       /\ df["phase_clean"] = Str(<<"U","n","k","n","o","w","n">>)
       /\ df["weather_condition"] = Str(<<"N","o","n","e","/","N","o","t"," ","m","e","n","t","i","o","n","e","d">>)
       /\ df["weather_adverse"] = Bool(FALSE)

C17_Witness ==
  /\ pc = "done"
  /\ df["fatalities"] = NaN /\ df["location"] = NaN
  /\ df["time"] = NaN /\ df["summary"] = NaN
  /\ df["location_city"] = None
  /\ df["phase_clean"] = Str(<<"U","n","k","n","o","w","n">>)

ClaimedTotal(s) ==
  LET digits == {p \in 1..Len(s) : s[p] \in Digit}
  IN IF digits = {} THEN NaN ELSE IntV(DigitRunValue(s, Min(digits), 0))

(* C18: the total is the value of the leftmost maximal run of digits of    *)
(* the text, absent without a digit, also when that run stands after a     *)
(* passengers: or crew: label.                                             *)
C18_TotalIsFirstDigitRun ==
  (PastFatalities /\ df["fatalities"].t = "str") =>
    /\ "fatalities_total" \in DOMAIN df
    /\ df["fatalities_total"] = ClaimedTotal(df["fatalities"].s)

Trimmed(s) ==
  LET body == {p \in 1..Len(s) : s[p] \notin Whitespace}
  IN SubSeq(s, Min(body), Max(body))

ClaimedNoComma(s) ==
  IF s \in KNOWN_COUNTRIES \/ \E c \in KNOWN_COUNTRIES : contains(c, s)
  THEN <<None, None, Str(s)>>
  ELSE <<Str(s), None, None>>

(* C19: a location without a comma that is not blank gives                 *)
(* (absent, absent, s) for the trimmed text s when s is, or contains in    *)
(* the same letter case, a known country name, and (s, absent, absent)     *)
(* otherwise; US states are not looked up.                                 *)
C19_NoComma ==
  (PastLocation /\ df["location"].t = "str" /\ ~Blank(df["location"].s)
     /\ NoComma(df["location"].s, 1, Len(df["location"].s))) =>
    /\ LocationColumns \subseteq DOMAIN df
    /\ LocationTriple = ClaimedNoComma(Trimmed(df["location"].s))
    /\ df["location_state"] = None
    /\ df["location_country"] # Str(<<"U","n","i","t","e","d"," ","S","t","a","t","e","s">>)

C19_Witness ==
  /\ PastLocation
  /\ df["location"] = Str(<<" ","I","n","d","i","a","n","a">>)
  /\ LocationTriple = <<None, None, Str(<<"I","n","d","i","a","n","a">>)>>

(* The positions at which a non-empty trimmed comma segment starts         *)
SegmentStarts(s) ==
  {p \in 1..Len(s) :
     /\ s[p] \notin SegmentNoise
     /\ LET comma == Max({0} \cup {q \in 1..(p - 1) : s[q] = ","})
        IN \A r \in (comma + 1)..(p - 1) : s[r] \in Whitespace}

(* The trimmed segment that starts at position p                           *)
SegmentAt(s, p) ==
  LET comma == Min({Len(s) + 1} \cup {q \in (p + 1)..Len(s) : s[q] = ","})
  IN SubSeq(s, p, Max({r \in p..(comma - 1) : s[r] \notin Whitespace}))

(* C20: a location of three or more non-empty trimmed comma segments gives *)
(* (first segment, second segment, last segment); the segments in between  *)
(* are dropped and nothing is looked up or inferred.                       *)
C20_ThreeOrMoreSegments ==
  (PastLocation /\ df["location"].t = "str"
     /\ Cardinality(SegmentStarts(df["location"].s)) >= 3) =>
    LET s == df["location"].s
        starts == SegmentStarts(s)
    IN /\ LocationColumns \subseteq DOMAIN df
       /\ LocationTriple
            = <<Str(SegmentAt(s, Min(starts))),
                Str(SegmentAt(s, Min(starts \ {Min(starts)}))),
                Str(SegmentAt(s, Max(starts)))>>

C20_Witness ==
  /\ PastLocation
  /\ df["location"] = Str(<<"M","i","a","m","i",",","F","L",",",",","I","n","d","i","a","n","a"," ">>)
  /\ LocationTriple = <<Str(<<"M","i","a","m","i">>), Str(<<"F","L">>), Str(<<"I","n","d","i","a","n","a">>)>>

(* The fields by which a record is recognised after cleaning               *)
SameRecord(r, source) ==
  \A c \in DOMAIN source \ OutputFields : c \in DOMAIN r /\ r[c] = source[c]

(* C16: the output of a record is a function of that record alone: when    *)
(* clean_dataset has ended, the record holds what cleaning it in a table   *)
(* of its own yields, whichever other records are in the table.            *)
C16_RecordIndependent ==
  pc \in {"done", "raised"} =>
    \A source \in SubjectRows :
      (SameRecord(df, source) /\ clean_row(source).exc = "none") =>
        pc = "done" /\ df = clean_row(source).val

(* C21: a location that contains a comma and has exactly one non-empty     *)
(* trimmed segment gives (segment, absent, absent), also when the segment  *)
(* is a known country or a US state.                                       *)
C21_OneSegment ==
  (PastLocation /\ df["location"].t = "str"
     /\ ~NoComma(df["location"].s, 1, Len(df["location"].s))
     /\ Cardinality(SegmentStarts(df["location"].s)) = 1) =>
    LET s == df["location"].s
    IN /\ LocationColumns \subseteq DOMAIN df
       /\ LocationTriple
            = <<Str(SegmentAt(s, Min(SegmentStarts(s)))), None, None>>

C21_Witness ==
  /\ PastLocation
  /\ df["location"] = Str(<<","," ","R","u","s","s","i","a">>)
  /\ LocationTriple = <<Str(<<"R","u","s","s","i","a">>), None, None>>

(* The rule list as the specification gives it: kind, pattern, name        *)
ClaimedRules ==
  <<<<"starts", <<"a","b","o","a","r","d">>, <<"a","b","o","a","r","d">>>>,
    <<"contains", <<"t","y","p","e">>, <<"a","i","r","c","r","a","f","t","_","t","y","p","e">>>>,
    <<"starts", <<"c","n">>, <<"c","n","_","l","n">>>>,
    <<"equals", <<"d","a","t","e">>, <<"d","a","t","e">>>>,
    <<"equals", <<"d","e","t","a","i","l","_","u","r","l">>, <<"d","e","t","a","i","l","_","u","r","l">>>>,
    <<"contains", <<"f","a","t","a","l","i","t">>, <<"f","a","t","a","l","i","t","i","e","s">>>>,
    <<"contains", <<"f","l","i","g","h","t">>, <<"f","l","i","g","h","t","_","n","o">>>>,
    <<"equals", <<"g","r","o","u","n","d">>, <<"g","r","o","u","n","d","_","f","a","t","a","l","i","t","i","e","s">>>>,
    <<"equals", <<"g","r","o","u","n","d","_","f","a","t","a","l","i","t","i","e","s">>, <<"g","r","o","u","n","d","_","f","a","t","a","l","i","t","i","e","s">>>>,
    <<"equals", <<"l","o","c","a","t","i","o","n">>, <<"l","o","c","a","t","i","o","n">>>>,
    <<"contains", <<"o","p","e","r","a","t","o","r">>, <<"o","p","e","r","a","t","o","r">>>>,
    <<"contains", <<"r","e","g","i","s","t","r">>, <<"r","e","g","i","s","t","r","a","t","i","o","n">>>>,
    <<"equals", <<"r","o","u","t","e">>, <<"r","o","u","t","e">>>>,
    <<"equals", <<"s","u","m","m","a","r","y">>, <<"s","u","m","m","a","r","y">>>>,
    <<"equals", <<"t","i","m","e">>, <<"t","i","m","e">>>>,
    <<"contains", <<"y","e","a","r","_","p","a","g","e","_","u","r","l">>, <<"y","e","a","r","_","p","a","g","e","_","u","r","l">>>>>>

RuleMatches(rule, c) ==
  CASE rule[1] = "starts" -> startswith(c, rule[2])
    [] rule[1] = "contains" -> contains(rule[2], c)
    [] rule[1] = "equals" -> c = rule[2]

RulesMatching(c) ==
  {j \in 1..Len(ClaimedRules) : RuleMatches(ClaimedRules[j], c)}

IsNormalized == pc # "normalize_columns"

(* C22: the name of a column is given by the first rule of the ordered     *)
(* list that its stripped, lower-cased header matches, whatever the other  *)
(* headers of the table are.                                               *)
C22_FirstMatchingRule ==
  IsNormalized =>
    \A i \in 1..Len(columns) :
      LET c == lower(strip(columns[i].raw))
      IN RulesMatching(c) # {} =>
           columns[i].name = ClaimedRules[Min(RulesMatching(c))][3]

C22_Witness ==
  /\ IsNormalized
  /\ Len(columns) = 1
  /\ columns[1].raw = <<"f","a","t","a","l","i","t","t","y","p","e">>
  /\ columns[1].name = <<"a","i","r","c","r","a","f","t","_","t","y","p","e">>
  /\ "aircraft_category" \in DOMAIN df

LowerAlnum == Digit \cup {LowerSeq[i] : i \in 1..26}

IsAlnum(ch) == ch \in Alnum

(* C23: a header that matches no rule gets a name of lower-case letters,   *)
(* digits and single interior underscores, whose letters and digits are    *)
(* those of the lower-cased header, in order.                              *)
C23_SnakeCase ==
  IsNormalized =>
    \A i \in 1..Len(columns) :
      LET c == lower(strip(columns[i].raw))
          name == columns[i].name
      IN RulesMatching(c) = {} =>
           /\ \A p \in 1..Len(name) : name[p] \in LowerAlnum \cup {"_"}
           /\ name # <<>> => name[1] # "_" /\ name[Len(name)] # "_"
           /\ \A p \in 1..(Len(name) - 1) : ~(name[p] = "_" /\ name[p + 1] = "_")
           /\ SelectSeq(name, IsAlnum) = SelectSeq(c, IsAlnum)

(* C24: when two headers get the same name, the table has one column of    *)
(* that name, holding the value of the later header, and the stages run    *)
(* on it.                                                                  *)
C24_LastWriteWins ==
  (IsNormalized /\ Len(columns) = 2 /\ columns[1].name = columns[2].name) =>
    LET k == column_key(columns[2].name)
    IN /\ k \in DOMAIN df
       /\ df[k].t # "frame"
       /\ df[k] = HeaderCells[2] \/ k = "ground_fatalities"
       /\ exc = NoExc

CanonicalSpelled == {Spelling[c] : c \in CanonicalFields}

(* C26: a header that is one of the fifteen canonical names keeps its name *)
C26_CanonicalNamesFixed ==
  IsNormalized =>
    \A i \in 1..Len(columns) :
      columns[i].raw \in CanonicalSpelled => columns[i].name = columns[i].raw

(* The record as it was before cleaning                                    *)
SameSource(r, source) ==
  /\ DOMAIN source \ (OutputFields \ {"ground_fatalities"})
       = DOMAIN r \ (OutputFields \ {"ground_fatalities"})
  /\ \A c \in DOMAIN source \ OutputFields : r[c] = source[c]

(* C25: with the stages run in any order, a run ends with the record that  *)
(* the order of clean_dataset yields, and ends with an exception only if   *)
(* the order of clean_dataset does.                                        *)
C25_AnyOrderSameRecord ==
  \A source \in AnyOrderRows :
    SameSource(df, source) =>
      /\ pc = "done" =>
           clean_row(source).exc = "none" /\ df = clean_row(source).val
      /\ pc = "raised" => clean_row(source).exc # "none"

C25_Witness ==
  /\ pc = "any_order"
  /\ pending = {1, 2, 3, 4, 5, 6, 7}
  /\ df["weather_condition"] = Str(<<"S","t","o","r","m","/","T","h","u","n","d","e","r","s","t","o","r","m">>)
  /\ "phase_clean" \notin DOMAIN df

(* The category of the priority list whose keyword the padded text shows   *)
OwnCategory(priority, text) ==
  {priority[i].label :
     i \in {i \in 1..Len(priority) :
              \E j \in 1..Len(priority[i].keywords) :
                text = <<"|">> \o priority[i].keywords[j] \o <<"|">>}}

(* C27: every keyword is effective: a text made of one keyword only is     *)
(* given the category that lists the keyword, in each of the three         *)
(* classifiers.                                                            *)
C27_EveryKeywordEffective ==
  /\ "aircraft_category" \in DOMAIN df =>
       \A label \in OwnCategory(AircraftPriority, df["aircraft_type"].s) :
         df["aircraft_category"] = Str(label)
  /\ "phase_clean" \in DOMAIN df =>
       \A label \in OwnCategory(PhasePriority, df["summary"].s) :
         df["phase_clean"] = Str(label)
  /\ "weather_condition" \in DOMAIN df =>
       \A label \in OwnCategory(WeatherPriority, df["summary"].s) :
         df["weather_condition"] = Str(label)

(* C30: after preprocess no country is a key of COUNTRY_FIX, and replacing *)
(* once more changes nothing.                                              *)
C30_CountryResolved ==
  (pc = "preprocessed" /\ df["location_country"].t = "str") =>
    /\ \A p \in COUNTRY_FIX : p[1] # df["location_country"].s
    /\ replace_country_fix(df["location_country"]) = df["location_country"]

DetailUrls == {all_records[n][<<"d","e","t","a","i","l","_","u","r","l">>] : n \in 1..Len(all_records)}

(* C28: all_records holds at most one record per detail URL, and           *)
(* visited_detail_urls is the set of the detail_url values of the records. *)
C28_VisitedAreRecorded ==
  /\ \A m, n \in 1..Len(all_records) :
       m # n => all_records[m][<<"d","e","t","a","i","l","_","u","r","l">>] # all_records[n][<<"d","e","t","a","i","l","_","u","r","l">>]
  /\ visited_detail_urls = DetailUrls

(* C29: once get_year_links has returned, the CSV file is eventually       *)
(* written, whatever fetches fail; by then every year page has been        *)
(* requested, and by the end of a year page every detail link of that      *)
(* page; the file has one row per parsed record under the sorted union of  *)
(* the record keys.                                                        *)
C29_FailuresAreSkipped ==
  /\ (pc = "year_loop") ~> (pc = "written")
  /\ [](pc = "written" =>
          /\ \A n \in 1..Len(year_links) : year_links[n] \in requested
          /\ Len(csv_file.rows) = Len(all_records)
          /\ Range(csv_file.header)
               = UNION {DOMAIN all_records[n] : n \in 1..Len(all_records)}
          /\ \A m \in 1..(Len(csv_file.header) - 1) :
               /\ csv_file.header[m] # csv_file.header[m + 1]
               /\ str_le(csv_file.header[m], csv_file.header[m + 1])
          /\ \A n \in 1..Len(all_records) :
               /\ Len(csv_file.rows[n]) = Len(csv_file.header)
               /\ \A m \in 1..Len(csv_file.header) :
                    csv_file.rows[n][m]
                      = IF csv_file.header[m] \in DOMAIN all_records[n]
                        THEN all_records[n][csv_file.header[m]] ELSE <<>>)
  /\ [](pc = "accident_loop" /\ acc_index > Len(accident_links) =>
          \A n \in 1..Len(accident_links) : accident_links[n] \in requested)

C29_Witness ==
  /\ pc = "written"
  /\ Len(year_links) = 2
  /\ \E u \in requested :
       u \notin visited_detail_urls \cup Range(year_links) \cup {DATABASE_URL}
  /\ Len(csv_file.rows) = 2
  /\ Len(csv_file.header) > 3
====
